---- MODULE Spec2Model ----
(***************************************************************************)
(* Upload lifecycle of the IMF uploader: Submit, Approve, Reject,          *)
(* GetStatus and PurgeCache handlers (api/handlers.go) over the MongoDB    *)
(* record store (mongo/store.go), the temporary blob store                 *)
(* (temp/storage.go), the S3 client (storage/s3.go), the CloudFront and    *)
(* Cloudflare clients.  Approve and Reject are modelled step by step, one  *)
(* step per call to a collaborator, because concurrent requests interleave *)
(* between those calls.                                                    *)
(***************************************************************************)
EXTENDS Integers, Sequences, FiniteSets, TLC

\* ---------------------------------------------------------------- bounds
\* requests served in one behaviour, in total and of each kind
MaxRequests == 3
MaxSubmits == 1
MaxApproves == 1
MaxRejects == 1
MaxStatus == 1
MaxPurges == 1
\* Approve requests in a behaviour that serves nothing but Approve
MaxRetries == 2
\* wall clock, in unix seconds, runs from 0 to MaxClock
MaxClock == 1

\* concurrently served Approve/Reject requests
Slots == {1, 2}

\* ------------------------------------------------------------- constants
\* config.MaxUploadSize, scaled down
MaxUploadSize == 2

StatusPending == "pending"
StatusApproved == "approved"
StatusRejected == "rejected"
StatusFailed == "failed"

RoleUploader == "uploader"
RoleReviewer == "reviewer"
RoleAdmin == "admin"

\* ----------------------------------------------------------- identifiers
\* An upload id as it travels in URLs and in Upload.ID: a string that is
\* either 24 hex digits or a UUID.
HexID(n) == [fmt |-> "hex", n |-> n]
UuidID(n) == [fmt |-> "uuid", n |-> n]

\* primitive.ObjectIDFromHex: fails on anything that is not 24 hex digits;
\* the callers that drop the error go on with NilObjectID (n = 0).
ObjectIDFromHex(id) ==
    IF id.fmt = "hex" THEN [ok |-> TRUE, oid |-> id.n]
    ELSE [ok |-> FALSE, oid |-> 0]

\* The _id of a document of the uploads collection: a BSON ObjectID or a
\* BSON string.
OidKey(n) == [t |-> "oid", n |-> n]
StrKey(n) == [t |-> "str", n |-> n]

\* Decoding _id into Upload.ID (a Go string): an ObjectID decodes to its hex
\* form, a string to itself.
DecodeID(key) == IF key.t = "oid" THEN HexID(key.n) ELSE UuidID(key.n)

\* ------------------------------------------------------------------ files
SubmitNames == {"a.pdf", "c.exe"}

\* filepath.Ext + strings.ToLower
Ext(fileName) == IF fileName = "a.pdf" THEN ".pdf" ELSE ".exe"

\* File contents are byte strings; the first byte stands for the magic number
\* http.DetectContentType looks at.
Contents == {<<1>>, <<7>>, <<1, 1, 1>>}

DetectContentType(data) ==
    IF data # << >> /\ data[1] = 1 THEN "application/pdf" ELSE "text/plain"

AllowedExtensions == {".pdf"}
AllowedMimeTypes == {"application/pdf", "application/octet-stream"}

isAllowedExtension(ext) == ext \in AllowedExtensions
isAllowedMimeType(mimeType) == mimeType \in AllowedMimeTypes
mimeMatchesExtension(ext, mimeType) ==
    IF ext = ".pdf"
    THEN mimeType \in {"application/pdf", "application/octet-stream"}
    ELSE TRUE

\* FileValidator.Validate: the Valid flag of the result
Validate(fileName, fileData) ==
    /\ ~(Len(fileData) > MaxUploadSize)
    /\ isAllowedExtension(Ext(fileName))
    /\ isAllowedMimeType(DetectContentType(fileData))
    /\ mimeMatchesExtension(Ext(fileName), DetectContentType(fileData))

\* fmt.Sprintf("%x", md5 of the bytes read): a function of the bytes alone,
\* never empty (the digest of the empty input is a 32-digit string too).
Checksum(fileData) == <<"md5">> \o fileData

\* ------------------------------------------------------------- S3 keys
NoKey == [kind |-> "none", ts |-> 0, name |-> ""]
DestKey(fileName) == [kind |-> "dest", ts |-> 0, name |-> fileName]
\* fmt.Sprintf("backup/%d/%s", time.Now().Unix(), fileName)
BackupKeyOf(ts, fileName) == [kind |-> "backup", ts |-> ts, name |-> fileName]

\* ----------------------------------------------------------------- users
Callers == {"rev", "usr", "new"}

\* the users collection: email -> role ("" when there is no user record)
UserRole(email) ==
    CASE email = "rev" -> RoleReviewer
      [] email = "adm" -> RoleAdmin
      [] email = "usr" -> RoleUploader
      [] OTHER -> ""

\* a role check that lets every user with a record review
isReviewerAnyRole(email) == UserRole(email) # ""

\* Handler.isReviewer
isReviewer(email) == UserRole(email) \in {RoleReviewer, RoleAdmin}

VARIABLES
    cfg,        \* configuration read at start-up
    quota,      \* requests of each operation this behaviour serves at most
    uploads,    \* uploads collection: _id -> document
    temp,       \* temporary blob store: key -> bytes
    expiry,     \* temporary blob store: key -> unix time of expiry
    s3,         \* bucket: key -> bytes
    backups,    \* backups collection
    audit,      \* audit_logs collection
    notes,      \* notifications handed to the Slack notifier by the latest step
    invs,       \* CloudFront invalidations: id -> status
    purges,     \* file names Cloudflare was asked to purge, in order
    clock,      \* unix time of the latest clock reading
    nextKey,    \* next value of primitive.NewObjectID / uuid.New
    procs,      \* Approve/Reject requests in flight
    cnt,        \* requests accepted so far, per operation
    last,       \* the response written by the latest step, if any
    hist        \* Store and Delete calls on an InMemoryStorage, in the order
                \* they took effect

vars == <<cfg, quota, uploads, temp, expiry, s3, backups, audit, notes, invs,
          purges, clock, nextKey, procs, cnt, last, hist>>

stores == <<uploads, temp, expiry, s3, backups, audit, invs>>


\* ------------------------------------------------------------ documents
NoID == [fmt |-> "none", n |-> 0]

\* an Upload built without its checksum
NewUploadNoChecksum(fileName, checksum, tempKey) ==
    [fileName |-> fileName, checksum |-> << >>, tempKey |-> tempKey,
     status |-> StatusPending, reviewedBy |-> "", s3Key |-> NoKey,
     backupKey |-> NoKey, reason |-> "", invID |-> 0, invStatus |-> "",
     expiresAt |-> 0]

\* cfg.TempStorageTimeout, in seconds (24 hours)
TempStorageTimeout == 86400

\* the expires_at UploadFile gives the record: time.Now() plus the timeout
WithExpiry(upload, now) ==
    [upload EXCEPT !.expiresAt = now + TempStorageTimeout]

\* models.Upload as handed to CreateUpload by UploadFile, but for expires_at
NewUpload(fileName, checksum, tempKey) ==
    [fileName |-> fileName, checksum |-> checksum, tempKey |-> tempKey,
     status |-> StatusPending, reviewedBy |-> "", s3Key |-> NoKey,
     backupKey |-> NoKey, reason |-> "", invID |-> 0, invStatus |-> "",
     expiresAt |-> 0]

\* DB.CreateUpload: the id is uuid.New().String(), the status is pending, and
\* the document is inserted under that string as _id.
CreateUpload(db, n, upload) ==
    (StrKey(n) :> [upload EXCEPT !.status = StatusPending]) @@ db

\* DB.GetUpload: (nil, err) when the id is not 24 hex digits, (nil, nil) when
\* no document has that ObjectID as _id.
GetUpload(db, id) ==
    LET parsed == ObjectIDFromHex(id) IN
    IF ~parsed.ok THEN [found |-> FALSE, err |-> TRUE, key |-> OidKey(0)]
    ELSE IF OidKey(parsed.oid) \in DOMAIN db
         THEN [found |-> TRUE, err |-> FALSE, key |-> OidKey(parsed.oid)]
         ELSE [found |-> FALSE, err |-> FALSE, key |-> OidKey(parsed.oid)]

\* an update to approved that leaves reviewed_by out of its $set
UpdateUploadApprovedNoReviewer(db, id, reviewedBy, s3Key, backupKey, invID) ==
    LET key == OidKey(ObjectIDFromHex(id).oid) IN
    IF key \in DOMAIN db
    THEN [db EXCEPT ![key] = [@ EXCEPT !.status = StatusApproved,
                                       !.s3Key = s3Key,
                                       !.backupKey = backupKey,
                                       !.invID = invID,
                                       !.invStatus = "InProgress"]]
    ELSE db

\* DB.UpdateUploadApproved: UpdateOne by ObjectID with $set; matching no
\* document is not an error.
UpdateUploadApproved(db, id, reviewedBy, s3Key, backupKey, invID) ==
    LET key == OidKey(ObjectIDFromHex(id).oid) IN
    IF key \in DOMAIN db
    THEN [db EXCEPT ![key] = [@ EXCEPT !.status = StatusApproved,
                                       !.reviewedBy = reviewedBy,
                                       !.s3Key = s3Key,
                                       !.backupKey = backupKey,
                                       !.invID = invID,
                                       !.invStatus = "InProgress"]]
    ELSE db

\* an update to rejected that leaves rejection_reason out of its $set
UpdateUploadRejectedNoReason(db, id, reviewedBy, reason) ==
    LET key == OidKey(ObjectIDFromHex(id).oid) IN
    IF key \in DOMAIN db
    THEN [db EXCEPT ![key] = [@ EXCEPT !.status = StatusRejected,
                                       !.reviewedBy = reviewedBy]]
    ELSE db

\* DB.UpdateUploadRejected
UpdateUploadRejected(db, id, reviewedBy, reason) ==
    LET key == OidKey(ObjectIDFromHex(id).oid) IN
    IF key \in DOMAIN db
    THEN [db EXCEPT ![key] = [@ EXCEPT !.status = StatusRejected,
                                       !.reviewedBy = reviewedBy,
                                       !.reason = reason]]
    ELSE db

\* an update of the invalidation status that also resets the status
UpdateCloudFrontStatusAndStatus(db, id, status) ==
    LET key == OidKey(ObjectIDFromHex(id).oid) IN
    IF key \in DOMAIN db
    THEN [db EXCEPT ![key] = [@ EXCEPT !.invStatus = status,
                                       !.status = StatusPending]]
    ELSE db

\* DB.UpdateCloudFrontStatus
UpdateCloudFrontStatus(db, id, status) ==
    LET key == OidKey(ObjectIDFromHex(id).oid) IN
    IF key \in DOMAIN db
    THEN [db EXCEPT ![key] = [@ EXCEPT !.invStatus = status]]
    ELSE db

\* models.AuditLog as inserted by DB.LogAudit
AuditEntry(id, action, user, status, reason) ==
    [id |-> id, action |-> action, user |-> user, status |-> status,
     reason |-> reason]

\* DB.LogAudit: the handlers drop its error, so a failed insert only means
\* that the entry is missing.
LogAudit(log, entry, ok) == IF ok THEN Append(log, entry) ELSE log

\* notifications.NotificationEvent as handed to SlackNotifier.Notify; id is
\* NoID when the event carries no Upload
Notify(type, id) == {[type |-> type, id |-> id]}

\* SlackNotifier.Notify of an event panics: with Slack enabled and
\* NotifyOnError set, an error event goes to notifyError, which reads
\* event.Upload.FileName, a nil pointer when the event carries no Upload.
\* Nothing recovers the panic before net/http does, which closes the
\* connection with no response written.
NotifyPanics(slack, type, id) == slack /\ type = "error" /\ id = NoID

\* S3Client.CheckFileExists as used by the handlers, which drop its error:
\* true only when HeadObject succeeded.
CheckFileExists(bucket, fileName, headOk) ==
    headOk /\ DestKey(fileName) \in DOMAIN bucket

\* a Get that returns the blob short of its last byte
TempGetShort(store, key) == SubSeq(store[key], 1, Len(store[key]) - 1)

\* InMemoryStorage.Get / RedisStorage.Get of a key that is present
TempGet(store, key) == store[key]

\* a Delete that empties the store
TempDeleteAll(store, key, ok) == << >>

\* InMemoryStorage.Store / RedisStorage.Store
TempStore(store, key, data) == (key :> data) @@ store

\* InMemoryStorage.Delete / RedisStorage.Delete
TempDelete(store, key, ok) ==
    IF ok THEN [k \in DOMAIN store \ {key} |-> store[k]] ELSE store

\* the body every handler writes with writeJSON / json.NewEncoder
Resp(op, id, code) ==
    [op |-> op, id |-> id, code |-> code, status |-> "",
     s3Key |-> NoKey, backupKey |-> NoKey, invID |-> 0, ready |-> FALSE,
     checksum |-> << >>, reason |-> "", exists |-> FALSE]

\* no response written
NoResp == Resp("none", NoID, 0)

\* what the handler of op answers after Notify(type, NoID): the response it
\* goes on to write, or none when the call panicked
AfterNotify(type, op, code) ==
    IF NotifyPanics(cfg.slack, type, NoID) THEN Resp(op, NoID, 0)
    ELSE Resp(op, NoID, code)

\* a request slot that serves nothing.  The fields from copied on record
\* what the request has done so far and are read by no handler.
Idle ==
    [op |-> "idle", pc |-> "done", id |-> NoID, who |-> "", reason |-> "",
     fileName |-> "", tempKey |-> 0, bytes |-> << >>, exists |-> FALSE,
     backupKey |-> NoKey, invID |-> 0,
     copied |-> << >>, existed |-> FALSE, solo |-> TRUE, was |-> "",
     purged |-> "", deleted |-> "", cancelled |-> FALSE, resp |-> NoResp]

\* the outcome ok of a call that is handed the context of the request in slot
\* p: once the context is cancelled or past its deadline the AWS, MongoDB and
\* HTTP clients return its error without doing anything
CallOk(p, ok) == ok => ~procs[p].cancelled

\* ids a client may put in the URL: the id of the document GetUpload can
\* address, a well-formed id of no document, and the first id CreateUpload
\* hands out
ReqIDs == {HexID(1), HexID(9), UuidID(2)}

\* the stored upload was submitted TempStorageTimeout seconds before the
\* clock's last second, which is when its record expires
SeedUpload(fileName, data, tempKey) ==
    WithExpiry(NewUpload(fileName, Checksum(data), tempKey),
               MaxClock - TempStorageTimeout)

\* The configurations explored: nothing optional configured; the defaults of
\* config.Get, where only content validation is enabled; and validation, the
\* CloudFront distribution, the Cloudflare credentials and the Slack webhook
\* (SLACK_ENABLED, with NotifyOnError at its default) all configured; and
\* the defaults with the CloudFront distribution alone added.
Configs ==
    {[validation |-> FALSE, distribution |-> FALSE, cloudflare |-> FALSE,
      slack |-> FALSE],
     [validation |-> TRUE, distribution |-> FALSE, cloudflare |-> FALSE,
      slack |-> FALSE],
     [validation |-> TRUE, distribution |-> TRUE, cloudflare |-> TRUE,
      slack |-> TRUE],
     [validation |-> TRUE, distribution |-> TRUE, cloudflare |-> FALSE,
      slack |-> FALSE]}

\* Approve requests of one behaviour that lose their context
MaxCancels == 1

Ops == {"upload", "approve", "reject", "status", "purge", "list", "auth",
        "temp", "cancel"}

\* The workloads explored: the review of the stored upload (Approve, Reject,
\* GetStatus, PurgeCache); a Submit followed up by Approve and GetStatus; and
\* nothing but Approve requests (an Approve and its retry); the same
\* where one of them may lose its request context; and the two Approve
\* requests with a GetStatus that polls CloudFront.
Profiles ==
    {[upload |-> 0, approve |-> MaxApproves, reject |-> MaxRejects,
      status |-> MaxStatus, purge |-> MaxPurges, list |-> 0, auth |-> 0,
      temp |-> 0, cancel |-> 0],
     [upload |-> MaxSubmits, approve |-> MaxApproves, reject |-> 0,
      status |-> MaxStatus, purge |-> 0, list |-> 0, auth |-> 0,
      temp |-> 0, cancel |-> 0],
     [upload |-> 0, approve |-> MaxRetries, reject |-> 0, status |-> 0,
      purge |-> 0, list |-> 0, auth |-> 0,
      temp |-> 0, cancel |-> 0],
     [upload |-> 0, approve |-> MaxRetries, reject |-> 0, status |-> 0,
      purge |-> 0, list |-> 0, auth |-> 0,
      temp |-> 0, cancel |-> MaxCancels],
     [upload |-> 0, approve |-> MaxRetries, reject |-> 0,
      status |-> MaxStatus, purge |-> 0, list |-> 0, auth |-> 0,
      temp |-> 0, cancel |-> 0]}

\* requests accepted so far
Total == cnt["upload"] + cnt["approve"] + cnt["reject"] + cnt["status"]
         + cnt["purge"]

\* the object the bucket holds under the seeded upload's file name before any
\* approval, when it holds one
PriorContent == <<7>>

\* State at start-up.  Validation is read by Submit alone, so the
\* configuration without it is explored in the workload that submits; the
\* workload with a lost context is explored under the defaults, and the
\* one that polls during a retry with a distribution configured and an
\* empty bucket.  The
\* stores are external and outlive the process: the
\* uploads collection holds one pending document keyed by an ObjectID, with
\* its blob in the temporary store, and the bucket may already hold an object
\* under its file name.
Init ==
    /\ cfg \in Configs
    /\ quota \in Profiles
    /\ cfg.validation \/ quota["upload"] > 0
    /\ quota["cancel"] > 0 => ~cfg.slack
    /\ (quota["approve"] = MaxRetries /\ quota["status"] > 0)
          <=> (cfg.distribution /\ ~cfg.cloudflare)
    /\ expiry = << >>
    /\ uploads = (OidKey(1) :> SeedUpload("a.pdf", <<1>>, 1))
    /\ temp = (1 :> <<1>>)
    /\ \E old \in BOOLEAN :
         /\ old => ~(cfg.distribution /\ ~cfg.cloudflare)
         /\ s3 = IF old THEN (DestKey("a.pdf") :> PriorContent) ELSE << >>
    /\ backups = {}
    /\ audit = << >>
    /\ notes = {}
    /\ invs = << >>
    /\ purges = << >>
    /\ clock = 0
    /\ nextKey = 2
    /\ procs = [p \in Slots |-> Idle]
    /\ cnt = [o \in Ops |-> 0]
    /\ last = NoResp
    /\ hist = << >>

\* ---------------------------------------------------------------- Submit
\* the size check of UploadFile: fileHeader.Size > cfg.MaxUploadSize
ExceedsMaxUploadSize(size) == size > MaxUploadSize

\* an UploadFile that writes its audit entry before it creates the record
UploadFileAuditFirst(fileName, fileData, userEmail) ==
    /\ Total < MaxRequests /\ cnt["upload"] < quota["upload"]
    /\ cnt' = [cnt EXCEPT !["upload"] = @ + 1]
    /\ UNCHANGED <<cfg, quota, hist, expiry, purges, backups, invs, clock, procs,
                   s3>>
    /\ IF ExceedsMaxUploadSize(Len(fileData))
       THEN /\ last' = Resp("upload", NoID, 400)
            /\ UNCHANGED <<uploads, temp, audit, nextKey>>
            /\ notes' = {}
       ELSE IF cfg.validation /\ ~Validate(fileName, fileData)
       THEN /\ notes' = Notify("error", NoID)
            /\ last' = AfterNotify("error", "upload", 400)
            /\ UNCHANGED <<uploads, temp, audit, nextKey>>
       ELSE \E storeOk, createOk, auditOk, headOk \in BOOLEAN :
            LET tempKey == nextKey
                checksum == Checksum(fileData)
                exists == CheckFileExists(s3, fileName, headOk)
                upload == WithExpiry(NewUpload(fileName, checksum, tempKey),
                                     clock)
                id == UuidID(nextKey)
            IN
            /\ nextKey' = nextKey + 1
            /\ IF ~storeOk
               THEN /\ notes' = Notify("error", NoID)
                    /\ last' = AfterNotify("error", "upload", 500)
                    /\ UNCHANGED <<uploads, temp, audit>>
                    /\ createOk /\ auditOk /\ headOk
               ELSE /\ temp' = (tempKey :> fileData) @@ temp
                    /\ IF ~createOk
                       THEN /\ notes' = Notify("error", NoID)
                            /\ last' = AfterNotify("error", "upload", 500)
                            /\ UNCHANGED uploads
                            /\ audit' = LogAudit(audit,
                                   AuditEntry(id, "upload", userEmail,
                                              "success", ""), auditOk)
                       ELSE /\ uploads' = CreateUpload(uploads, nextKey, upload)
                            /\ audit' = LogAudit(audit,
                                   AuditEntry(id, "upload", userEmail,
                                              "success", ""), auditOk)
                            /\ notes' = Notify("upload", id)
                            /\ last' = [Resp("upload", id, 202)
                                          EXCEPT !.status = StatusPending,
                                                 !.checksum = checksum,
                                                 !.exists = exists]

\* Handler.UploadFile.  tempStorage.Store takes no expiry and the handler
\* never calls SetTTL, so no entry of the temporary store gets one.
UploadFile(fileName, fileData, userEmail) ==
    /\ Total < MaxRequests /\ cnt["upload"] < quota["upload"]
    /\ cnt' = [cnt EXCEPT !["upload"] = @ + 1]
    /\ UNCHANGED <<cfg, quota, hist, expiry, purges, backups, invs, clock, procs,
                   s3>>
    /\ IF ExceedsMaxUploadSize(Len(fileData))
       THEN /\ last' = Resp("upload", NoID, 400)
            /\ UNCHANGED <<uploads, temp, audit, nextKey>>
            /\ notes' = {}
       ELSE IF cfg.validation /\ ~Validate(fileName, fileData)
       THEN /\ notes' = Notify("error", NoID)
            /\ last' = AfterNotify("error", "upload", 400)
            /\ UNCHANGED <<uploads, temp, audit, nextKey>>
       ELSE \E storeOk, createOk, auditOk, headOk \in BOOLEAN :
            LET tempKey == nextKey
                checksum == Checksum(fileData)
                exists == CheckFileExists(s3, fileName, headOk)
                upload == WithExpiry(NewUpload(fileName, checksum, tempKey),
                                     clock)
                id == UuidID(nextKey)
            IN
            /\ nextKey' = nextKey + 1
            /\ IF ~storeOk
               THEN /\ notes' = Notify("error", NoID)
                    /\ last' = AfterNotify("error", "upload", 500)
                    /\ UNCHANGED <<uploads, temp, audit>>
                    /\ createOk /\ auditOk /\ headOk
               ELSE /\ temp' = (tempKey :> fileData) @@ temp
                    /\ IF ~createOk
                       THEN /\ notes' = Notify("error", NoID)
                            /\ last' = AfterNotify("error", "upload", 500)
                            /\ UNCHANGED <<uploads, audit>>
                            /\ auditOk
                       ELSE /\ uploads' = CreateUpload(uploads, nextKey, upload)
                            /\ audit' = LogAudit(audit,
                                   AuditEntry(id, "upload", userEmail,
                                              "success", ""), auditOk)
                            /\ notes' = Notify("upload", id)
                            /\ last' = [Resp("upload", id, 202)
                                          EXCEPT !.status = StatusPending,
                                                 !.checksum = checksum,
                                                 !.exists = exists]

\* --------------------------------------------------------------- Approve
\* requests in flight that touch the same document or the same destination
Overlaps(q, id, fileName) ==
    /\ procs[q].op \in {"approve", "reject"}
    /\ procs[q].id = id \/ procs[q].fileName = fileName

\* a request enters slot p; solo records whether any other request on the
\* same document or destination is in flight during its lifetime, was the
\* status of the document GetUpload returned
Enter(p, op, id, who, reason, doc) ==
    [q \in Slots |->
        IF q = p
        THEN [Idle EXCEPT !.op = op,
                          !.pc = IF op = "approve" THEN "temp" ELSE "update",
                          !.id = id, !.who = who, !.reason = reason,
                          !.fileName = doc.fileName,
                          !.tempKey = doc.tempKey,
                          !.was = doc.status,
                          !.solo = \A r \in Slots \ {p} :
                                      ~Overlaps(r, id, doc.fileName)]
        ELSE IF Overlaps(q, id, doc.fileName)
             THEN [procs[q] EXCEPT !.solo = FALSE]
             ELSE procs[q]]

\* an ApproveUpload that never requests an invalidation
AfterPutSkipsInvalidation == "update"

\* the step after the S3 upload: the invalidation is requested only when a
\* distribution id is configured
AfterPut == IF cfg.distribution THEN "inv" ELSE "update"

\* the slot a new request is served in: slots are interchangeable, so the
\* first free one
FreeSlot(p) == procs[p].op = "idle" /\ \A q \in Slots : q < p => procs[q].op # "idle"

\* an ApproveUpload that refuses an upload another Approve is working on
ApprovePreconditionLocked(db, got, getOk) ==
    IF ~getOk \/ got.err \/ ~got.found THEN 404
    ELSE IF db[got.key].status # StatusPending THEN 400
    ELSE IF \E q \in Slots : /\ procs[q].op = "approve"
                             /\ procs[q].id = DecodeID(got.key)
    THEN 409
    ELSE 0

\* ApproveUpload without its status check, as RejectUpload is written
ApprovePreconditionNoStatus(db, got, getOk) ==
    IF ~getOk \/ got.err \/ ~got.found THEN 404 ELSE 0

\* the precondition of ApproveUpload after the role check: the status code
\* of the error it answers with, or 0 when the approval goes on
ApprovePrecondition(db, got, getOk) ==
    IF ~getOk \/ got.err \/ ~got.found THEN 404
    ELSE IF db[got.key].status # StatusPending THEN 400
    ELSE 0

\* Handler.ApproveUpload up to the pending check: isReviewer, GetUpload,
\* status
ApproveBegin(p, id, who, getOk) ==
    /\ FreeSlot(p)
    /\ Total < MaxRequests /\ cnt["approve"] < quota["approve"]
    /\ cnt' = [cnt EXCEPT !["approve"] = @ + 1]
    /\ UNCHANGED <<cfg, quota, hist, expiry, purges, uploads, temp, s3, backups,
                   audit, invs, clock, nextKey>>
    /\ notes' = {}
    /\   LET got == GetUpload(uploads, id)
             code == ApprovePrecondition(uploads, got, getOk)
         IN
         IF ~isReviewer(who)
         THEN /\ getOk
              /\ last' = Resp("approve", id, 403)
              /\ UNCHANGED procs
         ELSE IF code # 0
         THEN /\ last' = Resp("approve", id, code)
              /\ UNCHANGED procs
         ELSE /\ procs' = Enter(p, "approve", id, who, "", uploads[got.key])
              /\ last' = NoResp

\* tempStorage.Get and its failure path
ApproveTemp(p) ==
    /\ procs[p].op = "approve" /\ procs[p].pc = "temp"
    /\ UNCHANGED <<cfg, quota, hist, expiry, purges, uploads, temp, s3, backups,
                   invs, clock, nextKey, cnt>>
    /\ \E getOk, auditOk \in BOOLEAN :
         IF getOk /\ procs[p].tempKey \in DOMAIN temp
         THEN /\ auditOk
              /\ procs' = [procs EXCEPT ![p].bytes =
                                            TempGet(temp, procs[p].tempKey),
                                        ![p].pc = "head"]
              /\ UNCHANGED <<audit>>
              /\ notes' = {}
              /\ last' = NoResp
         ELSE /\ CallOk(p, auditOk)
              /\ notes' = Notify("error", procs[p].id)
              /\ audit' = LogAudit(audit,
                     AuditEntry(procs[p].id, "approve", procs[p].who,
                                "failure", ""), auditOk)
              /\ last' = Resp("approve", procs[p].id, 500)
              /\ procs' = [procs EXCEPT ![p] = Idle]

\* s3Client.CheckFileExists, error dropped
ApproveHead(p) ==
    /\ procs[p].op = "approve" /\ procs[p].pc = "head"
    /\ UNCHANGED <<cfg, quota, hist, expiry, purges, uploads, temp, s3, backups,
                   audit, invs, clock, nextKey, cnt>>
    /\ notes' = {}
    /\ last' = NoResp
    /\ \E headOk \in BOOLEAN :
         /\ CallOk(p, headOk)
         /\ LET exists == CheckFileExists(s3, procs[p].fileName, headOk) IN
            procs' = [procs EXCEPT ![p].exists = exists,
                                ![p].pc = IF exists THEN "backup" ELSE "put"]

\* models.BackupMetadata as saved by ApproveUpload
BackupMetadata(fileName, backupKey, id) ==
    [original |-> DestKey(fileName), backup |-> backupKey, uploadID |-> id]

\* s3Client.BackupFile with its failure path, then db.SaveBackupMetadata,
\* whose error is dropped (nothing else reads the backups collection, so the
\* two calls are one step).  time.Now().Unix() is the only clock reading the
\* model keeps: now is the time that reading returns, at or after the
\* previous one.
ApproveBackup(p) ==
    /\ procs[p].op = "approve" /\ procs[p].pc = "backup"
    /\ UNCHANGED <<cfg, quota, hist, expiry, purges, uploads, temp, audit, invs,
                   nextKey, cnt>>
    /\ \E copyOk, saveOk \in BOOLEAN, now \in clock..MaxClock :
         LET source == DestKey(procs[p].fileName)
             backupKey == BackupKeyOf(now, procs[p].fileName)
         IN
         /\ clock' = now
         /\ CallOk(p, copyOk) /\ (copyOk => CallOk(p, saveOk))
         /\ IF copyOk /\ source \in DOMAIN s3
            THEN /\ s3' = (backupKey :> s3[source]) @@ s3
                 /\ backups' =
                      IF saveOk
                      THEN backups \cup {BackupMetadata(procs[p].fileName,
                                            backupKey, procs[p].id)}
                      ELSE backups
                 /\ procs' = [procs EXCEPT ![p].backupKey = backupKey,
                                           ![p].copied = s3[source],
                                           ![p].pc = "put"]
                 /\ notes' = {}
                 /\ last' = NoResp
            ELSE /\ saveOk
                 /\ notes' = Notify("error", procs[p].id)
                 /\ last' = Resp("approve", procs[p].id, 500)
                 /\ procs' = [procs EXCEPT ![p] = Idle]
                 /\ UNCHANGED <<s3, backups>>

\* s3Client.UploadFile and its failure path
ApprovePut(p) ==
    /\ procs[p].op = "approve" /\ procs[p].pc = "put"
    /\ UNCHANGED <<cfg, quota, hist, expiry, purges, uploads, temp, backups, audit,
                   invs, clock, nextKey, cnt>>
    /\ \E putOk \in BOOLEAN :
         CallOk(p, putOk) /\
         LET dest == DestKey(procs[p].fileName) IN
         IF putOk
         THEN /\ s3' = (dest :> procs[p].bytes) @@ s3
              /\ procs' = [procs EXCEPT ![p].existed = dest \in DOMAIN s3,
                                        ![p].pc = AfterPut]
              /\ notes' = {}
              /\ last' = NoResp
         ELSE /\ notes' = Notify("error", procs[p].id)
              /\ last' = Resp("approve", procs[p].id, 500)
              /\ procs' = [procs EXCEPT ![p] = Idle]
              /\ UNCHANGED s3

\* an ApproveUpload that takes the object back from the destination when the
\* invalidation request fails
ApproveInvalidateRollsBack(p) ==
    /\ procs[p].op = "approve" /\ procs[p].pc = "inv"
    /\ UNCHANGED <<cfg, quota, hist, expiry, purges, uploads, temp, backups, audit,
                   clock, nextKey, cnt>>
    /\ \E invOk \in BOOLEAN :
         CallOk(p, invOk) /\
         IF invOk
         THEN /\ invs' = Append(invs, "InProgress")
              /\ procs' = [procs EXCEPT ![p].invID = Len(invs) + 1,
                                        ![p].pc = "update"]
              /\ notes' = {}
              /\ last' = NoResp
              /\ UNCHANGED s3
         ELSE /\ notes' = Notify("error", procs[p].id)
              /\ last' = Resp("approve", procs[p].id, 500)
              /\ procs' = [procs EXCEPT ![p] = Idle]
              /\ s3' = [k \in DOMAIN s3 \ {DestKey(procs[p].fileName)}
                           |-> s3[k]]
              /\ UNCHANGED invs

\* cloudFrontClient.InvalidateCache and its failure path
ApproveInvalidate(p) ==
    /\ procs[p].op = "approve" /\ procs[p].pc = "inv"
    /\ UNCHANGED <<cfg, quota, hist, expiry, purges, uploads, temp, s3, backups,
                   audit, clock, nextKey, cnt>>
    /\ \E invOk \in BOOLEAN :
         CallOk(p, invOk) /\
         IF invOk
         THEN /\ invs' = Append(invs, "InProgress")
              /\ procs' = [procs EXCEPT ![p].invID = Len(invs) + 1,
                                        ![p].pc = "update"]
              /\ notes' = {}
              /\ last' = NoResp
         ELSE /\ notes' = Notify("error", procs[p].id)
              /\ last' = Resp("approve", procs[p].id, 500)
              /\ procs' = [procs EXCEPT ![p] = Idle]
              /\ UNCHANGED invs

\* an ApproveUpload that returns an error when the Cloudflare purge fails
ApproveUpdatePurgeFatal(p, purgeOk, updateOk) ==
    /\ procs[p].op = "approve" /\ procs[p].pc = "update"
    /\ UNCHANGED <<cfg, quota, hist, expiry, temp, s3, backups, audit, invs, clock,
                   nextKey, cnt>>
    /\ cfg.cloudflare \/ purgeOk
    /\ CallOk(p, updateOk) /\ (cfg.cloudflare => CallOk(p, purgeOk))
    /\ purges' = IF cfg.cloudflare
                 THEN Append(purges, procs[p].fileName)
                 ELSE purges
    /\ notes' = IF cfg.cloudflare /\ ~purgeOk
                THEN Notify("error", procs[p].id)
                ELSE {}
    /\ IF updateOk /\ purgeOk
       THEN /\ uploads' = UpdateUploadApproved(uploads, procs[p].id,
                              procs[p].who, DestKey(procs[p].fileName),
                              procs[p].backupKey, procs[p].invID)
            /\ procs' = [procs EXCEPT
                           ![p].pc = "del",
                           ![p].purged = IF ~cfg.cloudflare THEN "skipped"
                                         ELSE "ok"]
            /\ last' = NoResp
       ELSE /\ last' = Resp("approve", procs[p].id, 500)
            /\ procs' = [procs EXCEPT ![p] = Idle]
            /\ UNCHANGED uploads

\* cloudflareClient.PurgeCache inside ApproveUpload, when a token and a zone
\* are configured: a failure is notified and the approval goes on (the call
\* touches no store, so it shares the step of what follows it).  Then
\* db.UpdateUploadApproved and its failure path.  purgeOk and updateOk are
\* the outcomes of the two calls.
ApproveUpdate(p, purgeOk, updateOk) ==
    /\ procs[p].op = "approve" /\ procs[p].pc = "update"
    /\ UNCHANGED <<cfg, quota, hist, expiry, temp, s3, backups, audit, invs, clock,
                   nextKey, cnt>>
    /\ cfg.cloudflare \/ purgeOk
    /\ CallOk(p, updateOk) /\ (cfg.cloudflare => CallOk(p, purgeOk))
    /\ purges' = IF cfg.cloudflare
                 THEN Append(purges, procs[p].fileName)
                 ELSE purges
    /\ notes' = IF cfg.cloudflare /\ ~purgeOk
                THEN Notify("error", procs[p].id)
                ELSE {}
    /\ IF updateOk
       THEN /\ uploads' = UpdateUploadApproved(uploads, procs[p].id,
                              procs[p].who, DestKey(procs[p].fileName),
                              procs[p].backupKey, procs[p].invID)
            /\ procs' = [procs EXCEPT
                           ![p].pc = "del",
                           ![p].purged = IF ~cfg.cloudflare THEN "skipped"
                                         ELSE IF purgeOk THEN "ok"
                                         ELSE "failed"]
            /\ last' = NoResp
       ELSE /\ last' = Resp("approve", procs[p].id, 500)
            /\ procs' = [procs EXCEPT ![p] = Idle]
            /\ UNCHANGED uploads

\* tempStorage.Delete, error dropped
ApproveDelete(p) ==
    /\ procs[p].op = "approve" /\ procs[p].pc = "del"
    /\ UNCHANGED <<cfg, quota, hist, expiry, purges, uploads, s3, backups, audit,
                   invs, clock, nextKey, cnt>>
    /\ notes' = {}
    /\ last' = NoResp
    /\ \E delOk \in BOOLEAN :
         /\ temp' = TempDelete(temp, procs[p].tempKey, delOk)
         /\ procs' = [procs EXCEPT ![p].pc = "audit",
                                   ![p].deleted = IF delOk THEN "ok"
                                                  ELSE "failed"]

\* the success audit entry, the approve notification and the response
ApproveFinish(p) ==
    /\ procs[p].op = "approve" /\ procs[p].pc = "audit"
    /\ UNCHANGED <<cfg, quota, hist, expiry, purges, uploads, temp, s3, backups,
                   invs, clock, nextKey, cnt>>
    /\ \E auditOk \in BOOLEAN :
         /\ CallOk(p, auditOk)
         /\ audit' = LogAudit(audit,
                        AuditEntry(procs[p].id, "approve", procs[p].who,
                                   "success", ""), auditOk)
    /\ notes' = Notify("approve", procs[p].id)
    /\ last' = [Resp("approve", procs[p].id, 200)
                  EXCEPT !.status = StatusApproved,
                         !.s3Key = DestKey(procs[p].fileName),
                         !.backupKey = procs[p].backupKey,
                         !.invID = procs[p].invID,
                         !.ready = TRUE]
    /\ procs' = [procs EXCEPT ![p] = Idle]

\* ---------------------------------------------------------------- Reject
Reasons == {"", "bad format"}

\* Handler.RejectUpload up to GetUpload: isReviewer, body decoding, GetUpload
RejectBegin(p, id, who, decodeOk, reason) ==
    /\ FreeSlot(p)
    /\ Total < MaxRequests /\ cnt["reject"] < quota["reject"]
    /\ cnt' = [cnt EXCEPT !["reject"] = @ + 1]
    /\ UNCHANGED <<cfg, quota, hist, expiry, purges, uploads, temp, s3, backups,
                   audit, invs, clock, nextKey>>
    /\ notes' = {}
    /\ \E getOk \in BOOLEAN :
         LET got == GetUpload(uploads, id) IN
         IF ~isReviewer(who)
         THEN /\ getOk
              /\ last' = Resp("reject", id, 403)
              /\ UNCHANGED procs
         ELSE IF ~decodeOk
         THEN /\ getOk
              /\ last' = Resp("reject", id, 400)
              /\ UNCHANGED procs
         ELSE IF ~getOk \/ got.err \/ ~got.found
         THEN /\ last' = Resp("reject", id, 404)
              /\ UNCHANGED procs
         ELSE /\ procs' = Enter(p, "reject", id, who, reason,
                                uploads[got.key])
              /\ last' = NoResp

\* db.UpdateUploadRejected and its failure path
RejectUpdate(p) ==
    /\ procs[p].op = "reject" /\ procs[p].pc = "update"
    /\ UNCHANGED <<cfg, quota, hist, expiry, purges, temp, s3, backups, audit, invs,
                   clock, nextKey, cnt>>
    /\ \E updateOk \in BOOLEAN :
         IF updateOk
         THEN /\ uploads' = UpdateUploadRejected(uploads, procs[p].id,
                                procs[p].who, procs[p].reason)
              /\ procs' = [procs EXCEPT ![p].pc = "del"]
              /\ notes' = {}
              /\ last' = NoResp
         ELSE /\ notes' = Notify("error", procs[p].id)
              /\ last' = Resp("reject", procs[p].id, 500)
              /\ procs' = [procs EXCEPT ![p] = Idle]
              /\ UNCHANGED uploads

\* tempStorage.Delete, error dropped
RejectDelete(p) ==
    /\ procs[p].op = "reject" /\ procs[p].pc = "del"
    /\ UNCHANGED <<cfg, quota, hist, expiry, purges, uploads, s3, backups, audit,
                   invs, clock, nextKey, cnt>>
    /\ notes' = {}
    /\ last' = NoResp
    /\ \E delOk \in BOOLEAN :
         /\ temp' = TempDelete(temp, procs[p].tempKey, delOk)
         /\ procs' = [procs EXCEPT ![p].pc = "audit",
                                   ![p].deleted = IF delOk THEN "ok"
                                                  ELSE "failed"]

\* the reject audit entry, the reject notification and the response
RejectFinish(p) ==
    /\ procs[p].op = "reject" /\ procs[p].pc = "audit"
    /\ UNCHANGED <<cfg, quota, hist, expiry, purges, uploads, temp, s3, backups,
                   invs, clock, nextKey, cnt>>
    /\ \E auditOk \in BOOLEAN :
         audit' = LogAudit(audit,
                     AuditEntry(procs[p].id, "reject", procs[p].who,
                                "success", procs[p].reason), auditOk)
    /\ notes' = Notify("reject", procs[p].id)
    /\ last' = [Resp("reject", procs[p].id, 200)
                  EXCEPT !.status = StatusRejected,
                         !.reason = procs[p].reason]
    /\ procs' = [procs EXCEPT ![p] = Idle]

\* ------------------------------------------------------------- GetStatus
\* CloudFrontClient.GetInvalidationStatus, error dropped by the caller
GetInvalidationStatus(all, invID, ok) ==
    IF ok /\ invID \in DOMAIN all THEN all[invID] ELSE ""

\* Handler.GetUploadStatus up to its write: GetUpload and, for a record with
\* an invalidation in progress, GetInvalidationStatus; getOk and pollOk are
\* the outcomes of the two calls, whose errors the handler drops.  When
\* CloudFront reports Completed the request goes on, in slot p, to
\* UpdateCloudFrontStatus; otherwise it answers at once.  resp is the record
\* as read, which is what the handler encodes in the end.
GetUploadStatus(p, id, getOk, pollOk) ==
    /\ Total < MaxRequests /\ cnt["status"] < quota["status"]
    /\ cnt' = [cnt EXCEPT !["status"] = @ + 1]
    /\ UNCHANGED <<cfg, quota, hist, stores, purges, clock, nextKey>>
    /\ notes' = {}
    /\ LET got == GetUpload(uploads, id) IN
       IF ~getOk \/ ~got.found
       THEN /\ pollOk /\ p = 1
            /\ last' = Resp("status", id, 404)
            /\ UNCHANGED procs
       ELSE LET upload == uploads[got.key]
                polls == /\ upload.invID # 0
                         /\ upload.invStatus = "InProgress"
                         /\ cfg.distribution
                status == GetInvalidationStatus(invs, upload.invID, pollOk)
                resp == [Resp("status", id, 200)
                           EXCEPT !.status = upload.status,
                                  !.s3Key = upload.s3Key,
                                  !.backupKey = upload.backupKey,
                                  !.invID = upload.invID,
                                  !.reason = upload.reason,
                                  !.checksum = upload.checksum]
            IN
            IF polls /\ status = "Completed"
            THEN /\ FreeSlot(p)
                 /\ procs' = [procs EXCEPT ![p] =
                                 [Idle EXCEPT !.op = "status",
                                              !.pc = "update",
                                              !.id = id, !.invID = upload.invID,
                                              !.resp = resp]]
                 /\ last' = NoResp
            ELSE /\ p = 1
                 /\ last' = resp
                 /\ UNCHANGED procs

\* Handler.GetUploadStatus from its write on: UpdateCloudFrontStatus, whose
\* error is dropped, and the response
StatusUpdate(p, updateOk) ==
    /\ procs[p].op = "status" /\ procs[p].pc = "update"
    /\ UNCHANGED <<cfg, quota, hist, expiry, purges, temp, s3, backups, audit,
                   invs, clock, nextKey, cnt>>
    /\ notes' = {}
    /\ uploads' = IF updateOk
                  THEN UpdateCloudFrontStatus(uploads, procs[p].id,
                                              "Completed")
                  ELSE uploads
    /\ last' = procs[p].resp
    /\ procs' = [procs EXCEPT ![p] = Idle]

\* the CloudFront service finishes an invalidation
InvalidationCompletes(i) ==
    /\ i \in DOMAIN invs
    /\ invs[i] = "InProgress"
    /\ invs' = [invs EXCEPT ![i] = "Completed"]
    /\ UNCHANGED <<cfg, quota, hist, expiry, purges, uploads, temp, s3, backups,
                   audit, clock, nextKey, procs, cnt>>
    /\ notes' = {}
    /\ last' = NoResp

\* ------------------------------------------------------------ PurgeCache
\* CloudflareClient.PurgeCache: fails without a client (no token configured)
PurgeCache(ok) == cfg.cloudflare /\ ok

\* PurgeCloudflareCache without its status check
PurgePreconditionNoStatus(db, got, getOk) ==
    IF ~getOk \/ ~got.found THEN 404 ELSE 0

\* the precondition of PurgeCloudflareCache: the status code of the error it
\* answers with, or 0 when the purge goes on
PurgePrecondition(db, got, getOk) ==
    IF ~getOk \/ ~got.found THEN 404
    ELSE IF db[got.key].status # StatusApproved THEN 400
    ELSE 0

\* Handler.PurgeCloudflareCache.  The client sends its request to Cloudflare
\* only when it has a token.
PurgeCloudflareCache(id, who) ==
    /\ Total < MaxRequests /\ cnt["purge"] < quota["purge"]
    /\ cnt' = [cnt EXCEPT !["purge"] = @ + 1]
    /\ UNCHANGED <<cfg, quota, hist, expiry, uploads, temp, s3,
                   backups, invs, clock, nextKey, procs>>
    /\ \E getOk, purgeOk, auditOk \in BOOLEAN :
         LET got == GetUpload(uploads, id)
             code == PurgePrecondition(uploads, got, getOk)
         IN
         IF code # 0
         THEN /\ purgeOk /\ auditOk
              /\ last' = Resp("purge", id, code)
              /\ UNCHANGED <<audit, purges>>
              /\ notes' = {}
         ELSE IF ~PurgeCache(purgeOk)
         THEN /\ auditOk
              /\ cfg.cloudflare \/ purgeOk
              /\ purges' = IF cfg.cloudflare
                           THEN Append(purges, uploads[got.key].fileName)
                           ELSE purges
              /\ notes' = Notify("error", id)
              /\ last' = Resp("purge", id, 500)
              /\ UNCHANGED audit
         ELSE /\ purges' = Append(purges, uploads[got.key].fileName)
              /\ audit' = LogAudit(audit,
                     AuditEntry(id, "purge_cloudflare", who, "success", ""),
                     auditOk)
              /\ last' = Resp("purge", id, 200)
              /\ notes' = {}

\* The context of the Approve in slot p is cancelled (the client went away)
\* or its deadline of five minutes elapses.  ApproveUpload never looks at the
\* context itself: it only hands it to the calls it makes.
Cancel(p) ==
    /\ procs[p].op = "approve" /\ ~procs[p].cancelled
    /\ cnt["cancel"] < quota["cancel"]
    /\ cnt' = [cnt EXCEPT !["cancel"] = @ + 1]
    /\ procs' = [procs EXCEPT ![p].cancelled = TRUE]
    /\ notes' = {}
    /\ last' = NoResp
    /\ UNCHANGED <<cfg, quota, hist, stores, purges, clock, nextKey>>

Next ==
    \/ \E fileName \in SubmitNames, fileData \in Contents :
         UploadFile(fileName, fileData, "usr")
    \/ \E p \in Slots, id \in ReqIDs, who \in Callers, getOk \in BOOLEAN :
         ApproveBegin(p, id, who, getOk)
    \/ \E p \in Slots : ApproveTemp(p)
    \/ \E p \in Slots : ApproveHead(p)
    \/ \E p \in Slots : ApproveBackup(p)
    \/ \E p \in Slots : ApprovePut(p)
    \/ \E p \in Slots : ApproveInvalidate(p)
    \/ \E p \in Slots, purgeOk, updateOk \in BOOLEAN :
         ApproveUpdate(p, purgeOk, updateOk)
    \/ \E p \in Slots : ApproveDelete(p)
    \/ \E p \in Slots : ApproveFinish(p)
    \/ \E p \in Slots, id \in ReqIDs, who \in Callers, decodeOk \in BOOLEAN,
          reason \in Reasons : RejectBegin(p, id, who, decodeOk, reason)
    \/ \E p \in Slots : RejectUpdate(p)
    \/ \E p \in Slots : RejectDelete(p)
    \/ \E p \in Slots : RejectFinish(p)
    \/ \E p \in Slots, id \in ReqIDs, getOk, pollOk \in BOOLEAN :
         GetUploadStatus(p, id, getOk, pollOk)
    \/ \E p \in Slots, updateOk \in BOOLEAN : StatusUpdate(p, updateOk)
    \/ \E i \in 1..MaxRetries : InvalidationCompletes(i)
    \/ \E id \in ReqIDs, who \in Callers : PurgeCloudflareCache(id, who)
    \/ \E p \in Slots : Cancel(p)

Spec == Init /\ [][Next]_vars

\* ------------------------------------------------------------ properties
Terminal == {StatusApproved, StatusRejected}

\* the document an id addresses through ObjectIDFromHex
KeyOf(id) == OidKey(ObjectIDFromHex(id).oid)

\* a Submit step of file name f and content d (the counter is compared first
\* because it tells a Submit step from the others at once)
Submits(f, d) == cnt'["upload"] # cnt["upload"] /\ UploadFile(f, d, "usr")

\* the first step of an Approve, and of a Reject whose body decodes
Approves(p, id, who, getOk) ==
    cnt'["approve"] # cnt["approve"] /\ ApproveBegin(p, id, who, getOk)

Rejects(p, id, who, reason) ==
    cnt'["reject"] # cnt["reject"] /\ RejectBegin(p, id, who, TRUE, reason)

\* the S3 upload of the Approve in slot p succeeds
Puts(p) == procs[p].pc = "put" /\ ApprovePut(p) /\ procs'[p].op = "approve"

\* the Approve in slot p answers with success
Finishes(p) == procs[p].pc = "audit" /\ ApproveFinish(p)


\* C1: once the status of a record is approved or rejected, no step of any
\* operation changes it, so the status moves only from pending to approved or
\* from pending to rejected.
C1_StatusMonotonic ==
    [][\A k \in DOMAIN uploads :
          uploads[k].status \in Terminal
              => uploads'[k].status = uploads[k].status]_vars

\* C2: an Approve that passes the role check answers 404 when the id has no
\* record (or the record cannot be read) and 400 when the record it reads is
\* not pending, and in both cases the step changes no store, sends no
\* notification and leaves no request in flight, so that none of the later
\* steps of Approve happens.
C2_ApproveFailsClean ==
    [][\A p \in Slots, id \in ReqIDs, who \in Callers, getOk \in BOOLEAN :
          (Approves(p, id, who, getOk) /\ isReviewer(who)) =>
              LET got == GetUpload(uploads, id)
                  stale == /\ getOk /\ got.found
                           /\ uploads[got.key].status # StatusPending
              IN
              /\ (~getOk \/ ~got.found) => last'.code = 404
              /\ stale => last'.code = 400
              /\ (~getOk \/ ~got.found \/ stale) =>
                     /\ UNCHANGED <<stores, procs>>
                     /\ notes' = {}]_vars

\* an Approve of a record that is no longer pending was answered with 400
C2_Witness ==
    /\ last.op = "approve" /\ last.code = 400 /\ last.id = HexID(1)
    /\ uploads[OidKey(1)].status \in Terminal

\* C3: an Approve or Reject call on a record whose status is already approved
\* or rejected is answered with an error (400 or 404) by its first step.
C3_TerminalCallsFail ==
    [][/\ \A p \in Slots, id \in ReqIDs, who \in Callers :
             (/\ Approves(p, id, who, TRUE) /\ isReviewer(who)
              /\ GetUpload(uploads, id).found
              /\ uploads[KeyOf(id)].status \in Terminal)
                 => last'.code \in {400, 404}
       /\ \A p \in Slots, id \in ReqIDs, who \in Callers, reason \in Reasons :
             (/\ Rejects(p, id, who, reason) /\ isReviewer(who)
              /\ GetUpload(uploads, id).found
              /\ uploads[KeyOf(id)].status \in Terminal)
                 => last'.code \in {400, 404}]_vars

\* C4: a record has a destination key exactly when its status is approved.
C4_DestKeyIffApproved ==
    \A k \in DOMAIN uploads :
        uploads[k].s3Key # NoKey <=> uploads[k].status = StatusApproved

\* C5: whenever the S3 upload of an Approve replaces an object that is at the
\* destination key, that Approve has copied this very object to its backup
\* key before.
C5_BackupBeforeOverwrite ==
    [][\A p \in Slots :
          LET dest == DestKey(procs[p].fileName) IN
          (Puts(p) /\ dest \in DOMAIN s3)
              => /\ procs[p].backupKey # NoKey
                 /\ procs[p].copied = s3[dest]]_vars

\* C6: the backup key a successful Approve returns is set exactly when an
\* object was at the destination key at the moment that Approve wrote to it.
C6_BackupKeyIffExisted ==
    [][\A p \in Slots :
          Finishes(p)
              => (last'.backupKey # NoKey <=> procs[p].existed)]_vars


\* C7: a Submit whose file is larger than the maximum, or whose
\* content fails FileValidator.Validate, is answered with 400 and changes no
\* store.
C7_SubmitRejectsInvalid ==
    [][\A f \in SubmitNames, d \in Contents :
          (Submits(f, d) /\ (Len(d) > MaxUploadSize \/ ~Validate(f, d)))
              => last'.code = 400 /\ UNCHANGED stores]_vars

ApprovePost(p) ==
    LET k == KeyOf(procs[p].id)
        dest == DestKey(procs[p].fileName)
    IN
    /\ uploads'[k].status = StatusApproved
    /\ uploads'[k].reviewedBy = procs[p].who
    /\ uploads'[k].s3Key = dest
    /\ uploads'[k].backupKey = NoKey
    /\ uploads'[k].invID = procs[p].invID
    /\ last'.code = 200
    /\ last'.s3Key = uploads'[k].s3Key
    /\ last'.backupKey = uploads'[k].backupKey
    /\ last'.invID = uploads'[k].invID
    /\ dest \in DOMAIN s3'
    /\ s3'[dest] = procs[p].bytes
    /\ Checksum(s3'[dest]) = uploads'[k].checksum

\* C10 as stated: when an Approve that found no object at the destination
\* key answers with success, the record is approved with the caller as
\* reviewer, the destination key, no backup key and the invalidation id, the
\* response carries the same keys and id, and the destination holds the bytes.
C10_ApprovePostcondition ==
    [][\A p \in Slots :
          (Finishes(p) /\ ~procs[p].existed) => ApprovePost(p)]_vars

\* C10, amended: the same, for an Approve during which no other Approve or
\* Reject of the same upload or the same file name was in flight.
C10_ApprovePostconditionAlone ==
    [][\A p \in Slots :
          (Finishes(p) /\ ~procs[p].existed /\ procs[p].solo)
              => ApprovePost(p)]_vars

\* an Approve with nothing at the destination and no Reject around succeeded
C10_Witness ==
    /\ last.op = "approve" /\ last.code = 200 /\ last.backupKey = NoKey
    /\ cnt["reject"] = 0
    /\ DOMAIN s3 = {DestKey("a.pdf")}
    /\ uploads[OidKey(1)].status = StatusApproved

\* C11: when an Approve that found an object at the destination key answers
\* with success, a BackupMetadata record names the destination key, the
\* upload and a backup key of the form backup/<timestamp>/<file name>, that
\* backup key is the one stored in the upload record, and the destination
\* holds the bytes of the upload.
C11_BackupMetadataRecorded ==
    [][\A p \in Slots :
          (Finishes(p) /\ procs[p].existed) =>
              LET k == KeyOf(procs[p].id)
                  dest == DestKey(procs[p].fileName)
              IN
              /\ procs[p].backupKey.kind = "backup"
              /\ procs[p].backupKey.name = procs[p].fileName
              /\ uploads'[k].backupKey = procs[p].backupKey
              /\ BackupMetadata(procs[p].fileName, procs[p].backupKey,
                                procs[p].id) \in backups'
              /\ dest \in DOMAIN s3'
              /\ s3'[dest] = procs[p].bytes]_vars

\* C12: a Reject by a reviewer whose body carries an empty reason is answered
\* with 400 by its first step, which changes no store and starts nothing.
C12_RejectRequiresReason ==
    [][\A p \in Slots, id \in ReqIDs, who \in Callers :
          (Rejects(p, id, who, "") /\ isReviewer(who))
              => /\ last'.code = 400
                 /\ UNCHANGED <<stores, procs>>]_vars

\* the Reject in slot p answers with success
RejectFinishes(p) ==
    procs[p].op = "reject" /\ procs[p].pc = "audit" /\ RejectFinish(p)

\* what C13 promises of the record, the response and the temporary copy at
\* the step that answers a successful Reject in slot p
RejectPost(p) ==
    LET k == KeyOf(procs[p].id) IN
    /\ last'.code = 200
    /\ last'.status = StatusRejected
    /\ uploads'[k].status = StatusRejected
    /\ uploads'[k].reason = procs[p].reason
    /\ uploads'[k].reviewedBy = procs[p].who
    /\ uploads'[k].s3Key = NoKey
    /\ procs[p].deleted \in {"ok", "failed"}
    /\ procs[p].deleted = "ok" => procs[p].tempKey \notin DOMAIN temp'

\* the reject/success audit entry of the Reject in slot p is appended
RejectAudited(p) ==
    audit' = Append(audit, [id |-> procs[p].id, action |-> "reject",
                            user |-> procs[p].who, status |-> "success",
                            reason |-> procs[p].reason])

ApproveFatalStep(p) ==
    /\ procs[p].op = "approve"
    /\ procs[p].pc \in {"temp", "head", "backup", "put", "inv"}
    /\ \/ ApproveTemp(p) \/ ApproveHead(p) \/ ApproveBackup(p)
       \/ ApprovePut(p) \/ ApproveInvalidate(p)

\* C14: no step of an Approve before its record update changes a record or
\* the temporary store, and the Approve read its record as pending; when
\* such a step fails the Approve answers 500 and ends, and if no other
\* Approve or Reject of the upload was in flight the record is still pending
\* with its temporary copy in place, which is what a later Approve needs.
\* When the failing step is the invalidation request, the bucket is left as
\* it is, with the bytes of the upload at the destination key.
C14_FatalFailureLeavesPending ==
    [][\A p \in Slots :
          ApproveFatalStep(p) =>
              LET k == KeyOf(procs[p].id)
                  dest == DestKey(procs[p].fileName)
                  fails == procs'[p].op = "idle"
              IN
              /\ UNCHANGED <<uploads, temp>>
              /\ procs[p].was = StatusPending
              /\ fails => /\ last'.op = "approve" /\ last'.code = 500
                          /\ last'.id = procs[p].id
              /\ (fails /\ procs[p].solo) =>
                     /\ uploads'[k].status = StatusPending
                     /\ uploads'[k].s3Key = NoKey
                     /\ procs[p].tempKey \in DOMAIN temp'
              /\ (fails /\ procs[p].pc = "inv") =>
                     /\ UNCHANGED s3
                     /\ dest \in DOMAIN s3'
                     /\ s3'[dest] = procs[p].bytes]_vars

\* an Approve failed at its fetch from the temporary store, and an Approve
\* of the same upload after it succeeded
C14_Witness ==
    /\ cnt["approve"] = 2
    /\ last.op = "approve" /\ last.code = 200 /\ last.id = HexID(1)
    /\ Len(audit) = 2
    /\ audit[1].action = "approve" /\ audit[1].status = "failure"
    /\ audit[2].action = "approve" /\ audit[2].status = "success"
    /\ uploads[OidKey(1)].status = StatusApproved
    /\ 1 \notin DOMAIN temp

C16_NotifyNeverChangesOutcome ==
    [][\A f \in SubmitNames, d \in Contents :
          (Submits(f, d) /\ notes' = {[type |-> "error", id |-> NoID]})
              => last'.code \in {400, 500}]_vars

\* C17: once an Approve or a Reject has answered with success the record
\* carries no temporary key (the zero key), and the temporary store is read
\* or deleted from only by requests that read their record as pending.
C17_TempKeyCleared ==
    [][\A p \in Slots :
          /\ (Finishes(p) \/ RejectFinishes(p))
                 => uploads'[KeyOf(procs[p].id)].tempKey = 0
          /\ (ApproveTemp(p) \/ ApproveDelete(p) \/ RejectDelete(p))
                 => procs[p].was = StatusPending]_vars

\* C18: the entry a Submit writes to the temporary store carries an expiry,
\* the time of the write plus the configured TTL, which is later than the
\* write.
C18_EntriesCarryExpiry ==
    [][\A f \in SubmitNames, d \in Contents :
          Submits(f, d) =>
              \A k \in DOMAIN temp' \ DOMAIN temp :
                  k \in DOMAIN expiry' /\ expiry'[k] > clock]_vars

\* the first step of a GetStatus for id with the given outcomes of its calls
Polls(p, id, getOk, pollOk) ==
    /\ cnt'["status"] # cnt["status"]
    /\ GetUploadStatus(p, id, getOk, pollOk)

\* C19: GetStatus changes no store but the uploads collection, where it adds
\* and removes no record and changes at most the record it was asked for,
\* and of that record only the invalidation status, to Completed.  It goes
\* on to that write exactly when the record it read has an invalidation id
\* with status InProgress and CloudFront reports that invalidation
\* Completed (with a distribution configured and the read and the poll
\* succeeding), and when the write succeeds Completed is persisted before
\* the response.
C19_GetStatusFrame ==
    [][/\ \A p \in Slots, id \in ReqIDs, getOk, pollOk \in BOOLEAN :
             Polls(p, id, getOk, pollOk) =>
                 LET k == KeyOf(id)
                     completes ==
                         /\ getOk /\ pollOk /\ cfg.distribution
                         /\ GetUpload(uploads, id).found
                         /\ uploads[k].invID # 0
                         /\ uploads[k].invStatus = "InProgress"
                         /\ uploads[k].invID \in DOMAIN invs
                         /\ invs[uploads[k].invID] = "Completed"
                 IN
                 /\ UNCHANGED <<stores, purges>>
                 /\ procs'[p].op = "status" <=> completes
                 /\ ~completes => UNCHANGED procs
       /\ \A p \in Slots :
             (procs[p].op = "status" /\ procs'[p].op # "status") =>
                 LET k == KeyOf(procs[p].id) IN
                 /\ UNCHANGED <<temp, expiry, s3, backups, audit, invs,
                                purges>>
                 /\ DOMAIN uploads' = DOMAIN uploads
                 /\ \A j \in DOMAIN uploads :
                        \/ uploads'[j] = uploads[j]
                        \/ /\ j = k
                           /\ uploads'[j] =
                                [uploads[j] EXCEPT !.invStatus = "Completed"]
                 /\ StatusUpdate(p, TRUE)
                        => /\ uploads'[k].invStatus = "Completed"
                           /\ last'.code = 200]_vars

\* a GetStatus has persisted Completed for the approved upload
C19_Witness ==
    /\ last.op = "status" /\ last.code = 200 /\ last.id = HexID(1)
    /\ uploads[OidKey(1)].status = StatusApproved
    /\ uploads[OidKey(1)].invID # 0
    /\ uploads[OidKey(1)].invStatus = "Completed"

\* a PurgeCache step for id by caller who
Purges(id, who) ==
    cnt'["purge"] # cnt["purge"] /\ PurgeCloudflareCache(id, who)

\* C20: a PurgeCache for an id that has no record is answered with 404, one
\* for a record that is not approved with 400; in both cases the step sends
\* no purge request to Cloudflare, appends no audit entry, notifies nothing
\* and changes no store.
C20_PurgeRequiresApproved ==
    [][\A id \in ReqIDs, who \in Callers :
          Purges(id, who) =>
              LET got == GetUpload(uploads, id) IN
              /\ ~got.found => last'.code = 404
              /\ (got.found /\ uploads[got.key].status # StatusApproved)
                     => last'.code \in {400, 404}
              /\ (~got.found \/ uploads[got.key].status # StatusApproved)
                     => /\ UNCHANGED <<stores, purges, procs>>
                        /\ notes' = {}]_vars

\* a PurgeCache for the upload while it is not approved was answered with 400
C20_Witness ==
    /\ last.op = "purge" /\ last.code = 400 /\ last.id = HexID(1)
    /\ uploads[OidKey(1)].status # StatusApproved
    /\ purges = << >>

\* C21: a PurgeCache for an approved upload whose purge request fails
\* appends an audit entry with action purge_cache and outcome failure,
\* notifies the error and answers with an error; one whose purge request
\* succeeds appends an audit entry with action purge_cache and outcome
\* success.
C21_PurgeAudited ==
    [][\A id \in ReqIDs, who \in Callers :
          (/\ Purges(id, who)
           /\ GetUpload(uploads, id).found
           /\ uploads[KeyOf(id)].status = StatusApproved
           /\ last'.code \in {200, 500})
              => /\ Len(audit') = Len(audit) + 1
                 /\ audit'[Len(audit')].id = id
                 /\ audit'[Len(audit')].action = "purge_cache"
                 /\ audit'[Len(audit')].status =
                        IF last'.code = 200 THEN "success" ELSE "failure"
                 /\ last'.code = 500
                        => notes' = {[type |-> "error", id |-> id]}]_vars

\* ----------------------------------------------------------------- lists
\* ListUploads and ListAuditLogs read the collections and write nothing, so
\* they are explored on their own, over collections of several sizes.  A
\* list changes nothing a later request reads.

\* list requests served in one behaviour
MaxLists == 1
\* documents in a listed collection, at most
MaxDocs == 201
\* width of a Go int, scaled down from 64 bits
IntBits == 16

\* the page sizes of the handlers: defaults and maxima
DefaultUploadsPageSize == 20
MaxUploadsPageSize == 100
DefaultAuditPageSize == 50
MaxAuditPageSize == 200

DocCounts == {0, 1, 5, MaxUploadsPageSize + 1, MaxDocs}

\* a query parameter: absent, text that starts with an integer, other text
QueryValues(ints) ==
    {[kind |-> "absent", n |-> 0], [kind |-> "text", n |-> 0]}
        \cup {[kind |-> "int", n |-> i] : i \in ints}

PageValues == {-1, 0, 1, 2, 3, 657, 32767}
PageSizeValues ==
    {-1, 0, 1, 2, MaxUploadsPageSize, MaxUploadsPageSize + 1,
     MaxAuditPageSize, MaxAuditPageSize + 1}

\* fmt.Sscanf(p, "%d", &v) with its result dropped: v is set when the text
\* starts with an integer and keeps its value otherwise
Sscanf(q, v) == IF q.kind = "int" THEN q.n ELSE v

\* arithmetic of a Go int: results wrap around
Wrap(x) ==
    ((x + 2 ^ (IntBits - 1)) % (2 ^ IntBits)) - 2 ^ (IntBits - 1)

Abs(x) == IF x < 0 THEN -x ELSE x

\* Go's / and % on ints: the quotient truncates toward zero (b # 0)
Quot(a, b) ==
    IF (a < 0) = (b < 0) THEN Abs(a) \div Abs(b) ELSE -(Abs(a) \div Abs(b))
Rem(a, b) == a - b * Quot(a, b)

Reverse(seq) == [i \in 1..Len(seq) |-> seq[Len(seq) + 1 - i]]

\* Find with SetSkip and SetLimit over the matching documents in sort order:
\* a negative skip is an error, a limit of 0 is no limit and a negative
\* limit is its absolute value
Find(sorted, skip, limit) ==
    IF skip < 0 THEN [err |-> TRUE, items |-> << >>]
    ELSE LET n == IF limit = 0 THEN Len(sorted) ELSE Abs(limit)
             to == IF skip + n < Len(sorted) THEN skip + n ELSE Len(sorted)
         IN [err |-> FALSE, items |-> SubSeq(sorted, skip + 1, to)]

\* DB.ListUploads: count of the documents with the status asked for, and the
\* page of them in the order of sortBy (the creation order stands for every
\* sort key) and sortDir
DBListUploads(db, status, page, pageSize, sortBy, sortDir, ok) ==
    LET made == [i \in 1..Cardinality(DOMAIN db) |-> OidKey(i)]
        match == SelectSeq(made,
                    LAMBDA k : status = "" \/ db[k].status = status)
        desc == sortDir = "desc" \/ sortBy = ""
        sorted == IF desc THEN Reverse(match) ELSE match
        found == Find(sorted, Wrap((page - 1) * pageSize), pageSize)
    IN IF ~ok \/ found.err
       THEN [err |-> TRUE, items |-> << >>, total |-> 0]
       ELSE [err |-> FALSE, items |-> found.items, total |-> Len(match)]

\* DB.ListAuditLogs: the same over the audit log, newest first
DBListAuditLogs(log, uploadID, action, userEmail, page, pageSize, ok) ==
    LET match == SelectSeq(log,
                    LAMBDA e : /\ uploadID = NoID \/ e.id = uploadID
                               /\ action = "" \/ e.action = action
                               /\ userEmail = "" \/ e.user = userEmail)
        found == Find(Reverse(match), Wrap((page - 1) * pageSize), pageSize)
    IN IF ~ok \/ found.err
       THEN [err |-> TRUE, items |-> << >>, total |-> 0]
       ELSE [err |-> FALSE, items |-> found.items, total |-> Len(match)]

\* a clamp that lets every page size through
ClampNothing(pageSize, max) == pageSize

\* the clamp of the handlers: if pageSize > max { pageSize = max }
Clamp(pageSize, max) == IF pageSize > max THEN max ELSE pageSize

\* the response of a list handler: 500 when the query failed, nothing when
\* the division by a page size of 0 panicked, the page otherwise; asked is
\* the query it answers
ListResp(op, asked, got, page, pageSize) ==
    IF got.err
    THEN [op |-> op, asked |-> asked, code |-> 500, total |-> 0,
          page |-> page, pageSize |-> pageSize, totalPages |-> 0,
          items |-> << >>]
    ELSE IF pageSize = 0
    THEN [op |-> op, asked |-> asked, code |-> 0, total |-> 0,
          page |-> page, pageSize |-> pageSize, totalPages |-> 0,
          items |-> << >>]
    ELSE [op |-> op, asked |-> asked, code |-> 200, total |-> got.total,
          page |-> page, pageSize |-> pageSize,
          totalPages |-> Quot(got.total, pageSize)
                           + IF Rem(got.total, pageSize) # 0 THEN 1 ELSE 0,
          items |-> got.items]

\* Handler.ListUploads
ListUploads(status, p, ps, sortBy, sortDir, ok) ==
    LET page == Sscanf(p, 1)
        pageSize == IF ps.kind = "absent" THEN DefaultUploadsPageSize
                    ELSE Clamp(Sscanf(ps, DefaultUploadsPageSize),
                               MaxUploadsPageSize)
        got == DBListUploads(uploads, status, page, pageSize, sortBy,
                             sortDir, ok)
    IN
    /\ cnt["list"] < quota["list"]
    /\ cnt' = [cnt EXCEPT !["list"] = @ + 1]
    /\ last' = ListResp("list_uploads", [page |-> p, pageSize |-> ps], got,
                        page, pageSize)
    /\ notes' = {}
    /\ UNCHANGED <<cfg, quota, hist, uploads, temp, expiry, s3, backups, audit,
                   invs, purges, clock, nextKey, procs>>

\* Handler.ListAuditLogs
ListAuditLogs(uploadID, action, userEmail, p, ps, ok) ==
    LET page == Sscanf(p, 1)
        pageSize == IF ps.kind = "absent" THEN DefaultAuditPageSize
                    ELSE Clamp(Sscanf(ps, DefaultAuditPageSize),
                               MaxAuditPageSize)
        got == DBListAuditLogs(audit, uploadID, action, userEmail, page,
                               pageSize, ok)
    IN
    /\ cnt["list"] < quota["list"]
    /\ cnt' = [cnt EXCEPT !["list"] = @ + 1]
    /\ last' = ListResp("list_audit_logs", [page |-> p, pageSize |-> ps],
                        got, page, pageSize)
    /\ notes' = {}
    /\ UNCHANGED <<cfg, quota, hist, uploads, temp, expiry, s3, backups, audit,
                   invs, purges, clock, nextKey, procs>>

\* The collections as some history of the service left them: n uploads,
\* every other one approved, and the upload entry of each in the audit log.
ListInit ==
    /\ cfg \in Configs /\ cfg.validation /\ ~cfg.slack
    /\ quota = [o \in Ops |-> IF o = "list" THEN MaxLists ELSE 0]
    /\ \E n \in DocCounts :
         /\ uploads = [k \in {OidKey(i) : i \in 1..n} |->
                          [SeedUpload("a.pdf", <<1>>, k.n) EXCEPT
                              !.status = IF k.n % 2 = 1 THEN StatusPending
                                         ELSE StatusApproved]]
         /\ audit = [i \in 1..n |->
                        AuditEntry(HexID(i), "upload", "usr", "success", "")]
         /\ nextKey = n + 1
    /\ temp = << >>
    /\ expiry = << >>
    /\ s3 = << >>
    /\ backups = {}
    /\ notes = {}
    /\ invs = << >>
    /\ purges = << >>
    /\ clock = 0
    /\ procs = [p \in Slots |-> Idle]
    /\ cnt = [o \in Ops |-> 0]
    /\ last = NoResp
    /\ hist = << >>

ListNext ==
    \/ \E status \in {"", StatusPending}, p \in QueryValues(PageValues),
          ps \in QueryValues(PageSizeValues), sortBy \in {"", "uploaded_at"},
          sortDir \in {"", "desc"}, ok \in BOOLEAN :
         ListUploads(status, p, ps, sortBy, sortDir, ok)
    \/ \E uploadID \in {NoID, HexID(1)}, action \in {"", "upload"},
          userEmail \in {"", "usr"}, p \in QueryValues(PageValues),
          ps \in QueryValues(PageSizeValues), ok \in BOOLEAN :
         ListAuditLogs(uploadID, action, userEmail, p, ps, ok)

ListSpec == ListInit /\ [][ListNext]_vars

\* the latest step answered a list request
Listed == last.op \in {"list_uploads", "list_audit_logs"}

\* C22: a list request whose page and page size are integers of at least 1
\* is answered with 200 or, when the query fails, with 500 and no items; in
\* a 200 the page size is the smaller of the size asked for and the maximum
\* (100 for uploads, 200 for audit logs), the page is the page asked for,
\* total_pages is the ceiling of total / page_size, and the items returned
\* are at most page_size.
C22_Pagination ==
    (/\ Listed
     /\ last.asked.page.kind = "int" /\ last.asked.page.n >= 1
     /\ last.asked.pageSize.kind = "int" /\ last.asked.pageSize.n >= 1)
        => LET max == IF last.op = "list_uploads" THEN MaxUploadsPageSize
                      ELSE MaxAuditPageSize
               want == last.asked.pageSize.n
           IN
           /\ last.code \in {200, 500}
           /\ last.code = 500 => last.items = << >>
           /\ last.code = 200 =>
                  /\ last.pageSize = IF want < max THEN want ELSE max
                  /\ last.page = last.asked.page.n
                  /\ last.totalPages * last.pageSize >= last.total
                  /\ (last.totalPages - 1) * last.pageSize < last.total
                  /\ Len(last.items) <= last.pageSize

\* a page size above the maximum was asked for and a full page of the
\* maximum size came back
C22_Witness ==
    /\ last.op = "list_uploads" /\ last.code = 200
    /\ last.asked.page.kind = "int" /\ last.asked.page.n = 2
    /\ last.asked.pageSize.kind = "int"
    /\ last.asked.pageSize.n = MaxUploadsPageSize + 1
    /\ last.pageSize = MaxUploadsPageSize
    /\ Len(last.items) = MaxUploadsPageSize
    /\ last.total = MaxDocs /\ last.totalPages = 3

\* C23: the ready flag of a successful Approve response is true exactly when
\* the Cloudflare purge was requested and succeeded; it is false when the
\* purge was skipped or failed.
C23_ReadyIffPurged ==
    [][\A p \in Slots :
        (Finishes(p) /\ last'.code = 200)
            => (last'.ready <=> procs[p].purged = "ok")]_vars

\* C24: invalidation tracking is recorded only when an invalidation was
\* requested: a record with invalidation status InProgress has a non-empty
\* invalidation id, and without a configured distribution no record carries
\* an invalidation id or an invalidation status.
C24_InvalidationTracked ==
    \A k \in DOMAIN uploads :
        /\ uploads[k].invStatus = "InProgress" => uploads[k].invID # 0
        /\ ~cfg.distribution =>
               uploads[k].invID = 0 /\ uploads[k].invStatus = ""

\* C25: for every approved upload that has a backup key, the object stored
\* at that backup key is the content that was at the destination key before
\* this upload's bytes were first written there, also when the approval
\* succeeded only on a retried Approve.  (Only the seeded upload is ever
\* written to its destination key, so that content is PriorContent.)
C25_BackupHoldsPrior ==
    \A k \in DOMAIN uploads :
        (uploads[k].status = StatusApproved /\ uploads[k].backupKey # NoKey)
            => /\ uploads[k].backupKey \in DOMAIN s3
               /\ s3[uploads[k].backupKey] = PriorContent

\* C26: an Approve or a Reject by a caller who has no user record, or whose
\* role is neither reviewer nor admin, is answered with 403 whatever the id
\* names, starts no step of the operation and changes neither the uploads
\* collection, the temporary store, the bucket nor the audit log.
C26_ReviewerRoleRequired ==
    [][\A p \in Slots, id \in ReqIDs, who \in Callers :
          UserRole(who) \notin {RoleReviewer, RoleAdmin} =>
              /\ \A getOk \in BOOLEAN :
                     (cnt'["approve"] # cnt["approve"]
                          /\ ApproveBegin(p, id, who, getOk))
                         => /\ last' = Resp("approve", id, 403)
                            /\ UNCHANGED <<stores, procs>>
              /\ \A decodeOk \in BOOLEAN, reason \in Reasons :
                     (cnt'["reject"] # cnt["reject"]
                          /\ RejectBegin(p, id, who, decodeOk, reason))
                         => /\ last' = Resp("reject", id, 403)
                            /\ UNCHANGED <<stores, procs>>]_vars

\* a caller without a user record was refused the approval of the pending
\* upload, which is still pending with its blob in the temporary store
C26_Witness ==
    /\ last = Resp("approve", HexID(1), 403)
    /\ uploads[OidKey(1)].status = StatusPending
    /\ 1 \in DOMAIN temp
    /\ audit = << >>
    /\ \A p \in Slots : procs[p].op = "idle"

\* ------------------------------------------------------- AuthMiddleware
\* requests the middleware sees in one behaviour
MaxAuths == 1

\* pieces of text a header value is at most made of
MaxHeaderLen == 5

\* A string is a sequence of pieces of text: the word Bearer, a space, and
\* two other words.  Two strings are equal when their sequences are.
Pieces == {"Bearer", " ", "t", "x"}

Strings(n) == UNION {[1..k -> Pieces] : k \in 0..n}

\* values of the Authorization header; r.Header.Get returns "" when the
\* header is missing
AuthHeaders == Strings(MaxHeaderLen)

\* values of SERVICE_AUTH_TOKEN, "" when it is not set
ServiceAuthTokens == {<< >>, <<"t">>, <<"t", "t">>, <<"t", " ", "x">>}

\* status codes the wrapped handler answers with
NextCodes == {200, 400}

\* strings.Fields: the parts between runs of spaces, none of them empty
RECURSIVE Fields(_)
Fields(s) ==
    IF s = << >> THEN << >>
    ELSE IF Head(s) = " " THEN Fields(Tail(s))
    ELSE LET rest == Fields(Tail(s)) IN
         IF Len(s) > 1 /\ s[2] # " "
         THEN <<<<Head(s)>> \o Head(rest)>> \o Tail(rest)
         ELSE <<<<Head(s)>>>> \o rest

\* strings.Split(s, " "): the parts between single spaces, empty ones
\* included; a string without a space is one part
RECURSIVE Split(_)
Split(s) ==
    IF \A i \in 1..Len(s) : s[i] # " " THEN <<s>>
    ELSE LET i == CHOOSE j \in 1..Len(s) :
                      s[j] = " " /\ \A k \in 1..(j - 1) : s[k] # " "
         IN <<SubSeq(s, 1, i - 1)>> \o Split(SubSeq(s, i + 1, Len(s)))

\* the response of a request that went through AuthMiddleware: served tells
\* whether next.ServeHTTP was called, and then the code is the one the
\* wrapped handler wrote
AuthResp(header, served, code) ==
    [op |-> "auth", header |-> header, served |-> served, code |-> code]

\* AuthMiddleware
AuthMiddleware(authHeader, nextCode) ==
    /\ cnt["auth"] < quota["auth"]
    /\ cnt' = [cnt EXCEPT !["auth"] = @ + 1]
    /\ UNCHANGED <<cfg, quota, hist, stores, purges, clock, nextKey, procs>>
    /\ notes' = {}
    /\ LET parts == Split(authHeader) IN
       IF authHeader = << >>
       THEN last' = AuthResp(authHeader, FALSE, 401)
       ELSE IF Len(parts) # 2 \/ parts[1] # <<"Bearer">>
       THEN last' = AuthResp(authHeader, FALSE, 401)
       ELSE IF parts[2] # cfg.ServiceAuthToken
       THEN last' = AuthResp(authHeader, FALSE, 401)
       ELSE last' = AuthResp(authHeader, TRUE, nextCode)

\* the service started with some token configured, before any request
AuthInit ==
    /\ \E token \in ServiceAuthTokens : cfg = [ServiceAuthToken |-> token]
    /\ quota = [o \in Ops |-> IF o = "auth" THEN MaxAuths ELSE 0]
    /\ uploads = << >>
    /\ temp = << >>
    /\ expiry = << >>
    /\ s3 = << >>
    /\ backups = {}
    /\ audit = << >>
    /\ notes = {}
    /\ invs = << >>
    /\ purges = << >>
    /\ clock = 0
    /\ nextKey = 1
    /\ procs = [p \in Slots |-> Idle]
    /\ cnt = [o \in Ops |-> 0]
    /\ last = NoResp
    /\ hist = << >>

AuthNext ==
    \E authHeader \in AuthHeaders, nextCode \in NextCodes :
        AuthMiddleware(authHeader, nextCode)

AuthSpec == AuthInit /\ [][AuthNext]_vars

\* C27: AuthMiddleware calls the wrapped handler if and only if the
\* Authorization header is the word Bearer, one space and the configured
\* token, in exactly two space-separated parts; any other header, a missing
\* one included, is answered with 401 without calling the wrapped handler.
C27_BearerTokenOnly ==
    last.op = "auth" =>
        LET token == cfg.ServiceAuthToken
            good == /\ last.header = <<"Bearer", " ">> \o token
                    /\ \A i \in 1..Len(token) : token[i] # " "
        IN
        /\ last.served <=> good
        /\ ~last.served => last.code = 401

\* the header "Bearer t" was presented with token t configured, and the
\* wrapped handler answered
C27_Witness ==
    /\ last.op = "auth" /\ last.served /\ last.code = 200
    /\ last.header = <<"Bearer", " ", "t">>
    /\ cfg.ServiceAuthToken = <<"t">>

\* ------------------------------------------------------ InMemoryStorage
\* calls made on the storage in one behaviour
MaxTempCalls == 4

StoreKeys == {1, 2}
StoreData == {<<1>>, <<7>>}

\* a goroutine that is in no call on the storage
NoCall == [op |-> "idle", key |-> 0, data |-> << >>]

\* what a call returned: the data and the error text ("" for nil)
TempResp(op, key, data, err) ==
    [op |-> op, key |-> key, data |-> data, err |-> err]

\* s.mu.Lock() of Store and Delete: granted while no goroutine holds the
\* mutex for writing or for reading.  A goroutine in the middle of a call
\* holds the mutex.
Lock(p, op, key, data) ==
    /\ procs[p] = NoCall
    /\ cnt["temp"] < quota["temp"]
    /\ op \in {"store", "delete"}
    /\ \A q \in Slots : procs[q] = NoCall
    /\ cnt' = [cnt EXCEPT !["temp"] = @ + 1]
    /\ procs' = [procs EXCEPT ![p] = [op |-> op, key |-> key,
                                      data |-> data]]
    /\ notes' = {}
    /\ last' = NoResp
    /\ UNCHANGED <<cfg, quota, hist, stores, purges, clock, nextKey>>

\* s.mu.RLock() of Get: granted while no goroutine holds the mutex for
\* writing
RLock(p, key) ==
    /\ procs[p] = NoCall
    /\ cnt["temp"] < quota["temp"]
    /\ \A q \in Slots : procs[q].op \notin {"store", "delete"}
    /\ cnt' = [cnt EXCEPT !["temp"] = @ + 1]
    /\ procs' = [procs EXCEPT ![p] = [op |-> "get", key |-> key,
                                      data |-> << >>]]
    /\ notes' = {}
    /\ last' = NoResp
    /\ UNCHANGED <<cfg, quota, hist, stores, purges, clock, nextKey>>

\* InMemoryStorage.Store after Lock, with its deferred Unlock
Store(p) ==
    /\ procs[p].op = "store"
    /\ temp' = TempStore(temp, procs[p].key, procs[p].data)
    /\ hist' = Append(hist, procs[p])
    /\ last' = TempResp("store", procs[p].key, << >>, "")
    /\ procs' = [procs EXCEPT ![p] = NoCall]
    /\ notes' = {}
    /\ UNCHANGED <<cfg, quota, uploads, expiry, s3, backups, audit, invs,
                   purges, clock, nextKey, cnt>>

\* InMemoryStorage.Get after RLock, with its deferred RUnlock
Get(p) ==
    /\ procs[p].op = "get"
    /\ last' = IF procs[p].key \in DOMAIN temp
               THEN TempResp("get", procs[p].key,
                             TempGet(temp, procs[p].key), "")
               ELSE TempResp("get", procs[p].key, << >>, "key not found")
    /\ procs' = [procs EXCEPT ![p] = NoCall]
    /\ notes' = {}
    /\ UNCHANGED <<cfg, quota, hist, stores, purges, clock, nextKey, cnt>>

\* InMemoryStorage.Delete after Lock, with its deferred Unlock
Delete(p) ==
    /\ procs[p].op = "delete"
    /\ temp' = TempDelete(temp, procs[p].key, TRUE)
    /\ hist' = Append(hist, procs[p])
    /\ last' = TempResp("delete", procs[p].key, << >>, "")
    /\ procs' = [procs EXCEPT ![p] = NoCall]
    /\ notes' = {}
    /\ UNCHANGED <<cfg, quota, uploads, expiry, s3, backups, audit, invs,
                   purges, clock, nextKey, cnt>>

\* NewInMemoryStorage, which NewRedisStorage returns when no Redis address
\* is configured
StoreInit ==
    /\ cfg \in Configs /\ cfg.validation /\ ~cfg.slack
    /\ quota = [o \in Ops |-> IF o = "temp" THEN MaxTempCalls ELSE 0]
    /\ uploads = << >>
    /\ temp = << >>
    /\ expiry = << >>
    /\ s3 = << >>
    /\ backups = {}
    /\ audit = << >>
    /\ notes = {}
    /\ invs = << >>
    /\ purges = << >>
    /\ clock = 0
    /\ nextKey = 1
    /\ procs = [p \in Slots |-> NoCall]
    /\ cnt = [o \in Ops |-> 0]
    /\ last = NoResp
    /\ hist = << >>

StoreNext ==
    \/ \E p \in Slots, op \in {"store", "delete"}, key \in StoreKeys,
          data \in StoreData :
           Lock(p, op, key, IF op = "store" THEN data ELSE << >>)
    \/ \E p \in Slots, key \in StoreKeys : RLock(p, key)
    \/ \E p \in Slots : Store(p)
    \/ \E p \in Slots : Get(p)
    \/ \E p \in Slots : Delete(p)

StoreSpec == StoreInit /\ [][StoreNext]_vars

\* the latest call on key in the history h, when it is a Store
Latest(h, key) ==
    LET on == {i \in 1..Len(h) : h[i].key = key} IN
    IF on = {} THEN [found |-> FALSE, data |-> << >>]
    ELSE LET i == CHOOSE j \in on : \A k \in on : k <= j IN
         [found |-> h[i].op = "store", data |-> h[i].data]

\* C28: after any interleaving of Store, Get and Delete calls on an
\* InMemoryStorage, a key is held exactly when the most recent Store or
\* Delete of that key was a Store, and then with the data of that Store, so
\* a Delete leaves every other key as it was; Get returns that data and
\* fails with a "not found" error for a key that is not held; Store and
\* Delete return no error.
C28_StoreGetDelete ==
    /\ \A key \in StoreKeys :
           /\ key \in DOMAIN temp <=> Latest(hist, key).found
           /\ key \in DOMAIN temp => temp[key] = Latest(hist, key).data
    /\ DOMAIN temp \subseteq StoreKeys
    /\ last.op = "get" =>
           IF Latest(hist, last.key).found
           THEN last.err = "" /\ last.data = Latest(hist, last.key).data
           ELSE last.err = "key not found"
    /\ last.op \in {"store", "delete"} => last.err = ""

\* a Get returned the data of the second of two Stores of its key, after a
\* Delete of the other key, which was absent
C28_Witness ==
    /\ last = TempResp("get", 1, <<7>>, "")
    /\ Len(hist) = 3
    /\ hist[1] = [op |-> "store", key |-> 1, data |-> <<1>>]
    /\ hist[2] = [op |-> "store", key |-> 1, data |-> <<7>>]
    /\ hist[3] = [op |-> "delete", key |-> 2, data |-> << >>]

\* C29: every upload created by CreateUpload is retrievable: after a Submit
\* answered with 202, GetUpload with the id of the response returns the new
\* record, with the submitted file name; and an Approve or a GetStatus with
\* the id of a record created by Submit does not answer 404.
C29_CreatedRetrievable ==
    [][/\ \A f \in SubmitNames, d \in Contents :
             (Submits(f, d) /\ last'.code = 202) =>
                 LET got == GetUpload(uploads', last'.id) IN
                 /\ ~got.err /\ got.found
                 /\ uploads'[got.key].fileName = f
       /\ \A id \in ReqIDs :
             (id.fmt = "uuid" /\ StrKey(id.n) \in DOMAIN uploads) =>
                 /\ \A p \in Slots :
                        Approves(p, id, "rev", TRUE) => last'.code # 404
                 /\ \A p \in Slots :
                        Polls(p, id, TRUE, TRUE) => last'.code # 404]_vars

\* C30: every fatal step failure in Approve - the fetch from the temporary
\* store, the backup copy, the destination write or the invalidation
\* request - appends an audit entry with action approve and outcome failure
\* and emits an error notification with the response.
C30_FatalFailureAudited ==
    [][\A p \in Slots :
          (ApproveFatalStep(p) /\ last'.code = 500)
              => /\ notes' = Notify("error", procs[p].id)
                 /\ audit' = Append(audit,
                        AuditEntry(procs[p].id, "approve", procs[p].who,
                                   "failure", ""))]_vars

\* C31: Submit writes to the temporary store, then creates the record, then
\* writes the audit entry, then notifies: an audit entry is written only with
\* a record created, a record only with the blob stored; when the store
\* write fails nothing is created; when the record creation fails after it,
\* no audit entry is written and the blob stays in the temporary store.
C31_SubmitOrder ==
    [][\A f \in SubmitNames, d \in Contents :
          Submits(f, d) =>
              LET stored == temp' # temp
                  created == uploads' # uploads
                  audited == audit' # audit
              IN
              /\ audited => created
              /\ created => stored
              /\ stored => temp' = (nextKey :> d) @@ temp
              /\ created => /\ last'.code = 202
                            /\ notes' = Notify("upload", last'.id)
              /\ ~created => last'.code # 202 /\ audit' = audit
              /\ (stored /\ ~created) => nextKey \in DOMAIN temp']_vars

\* a Submit stored its blob and failed to create its record: the blob is in
\* the temporary store, no record and no audit entry were written
C31_Witness ==
    /\ last.op = "upload" /\ last.code = 500
    /\ \E k \in DOMAIN temp : k # 1 /\ StrKey(k) \notin DOMAIN uploads
    /\ audit = << >>

\* the steps of ApproveUpload that may follow one another: from, to
ApproveOrder ==
    {<<"temp", "head">>, <<"head", "backup">>, <<"head", "put">>,
     <<"backup", "put">>,
     <<"put", IF cfg.distribution THEN "inv" ELSE "update">>,
     <<"inv", "update">>, <<"update", "del">>, <<"del", "audit">>}

\* C32: the steps of an Approve occur in the order fetch from the temporary
\* store, existence check and backup, destination write, invalidation
\* request (if configured), purge and record update, delete from the
\* temporary store, success audit entry and notification with the response:
\* every step of an Approve either ends it or moves to the next step, the
\* record changes only in the update step, the invalidation is requested
\* only in its step, the destination is written only in the write step, the
\* temporary copy is deleted only after the update, and the success audit
\* entry and the approve notification come only with the last step.
C32_ApproveStepOrder ==
    [][\A p \in Slots :
          (procs[p].op = "approve" /\ procs'[p].pc # procs[p].pc) =>
              LET pc == procs[p].pc
                  dest == DestKey(procs[p].fileName)
              IN
              /\ procs'[p].op = "approve"
                     => <<pc, procs'[p].pc>> \in ApproveOrder
              /\ procs'[p].op # "approve"
                     => procs'[p] = Idle /\ last'.code \in {200, 500}
              /\ last'.code = 200 <=> pc = "audit"
              /\ uploads' # uploads => pc = "update"
              /\ invs' # invs => pc = "inv"
              /\ purges' # purges => pc = "update"
              /\ (dest \in DOMAIN s3' /\ (dest \notin DOMAIN s3
                                          \/ s3'[dest] # s3[dest]))
                     => pc = "put"
              /\ s3' # s3 => pc \in {"backup", "put"}
              /\ temp' # temp => pc = "del"
              /\ audit' # audit => pc \in {"temp", "audit"}
              /\ (audit' # audit /\ pc = "audit")
                     => audit'[Len(audit')].status = "success"
              /\ notes' = Notify("approve", procs[p].id) => pc = "audit"]_vars

\* an Approve went through every step: backup, destination write, invalidation
\* request, purge, record update, delete, audit entry, and answered 200
C32_Witness ==
    /\ last.op = "approve" /\ last.code = 200 /\ last.backupKey # NoKey
    /\ cfg.distribution /\ cfg.cloudflare
    /\ Len(invs) = 1 /\ Len(purges) = 1
    /\ uploads[OidKey(1)].status = StatusApproved
    /\ 1 \notin DOMAIN temp
    /\ Len(audit) = 1 /\ audit[1].status = "success"
    /\ cnt["approve"] = 1

\* C33: there is no per-upload lock: an Approve of a pending upload by a
\* reviewer passes the pending check whatever other requests are in flight,
\* and its record update overwrites the reviewer, the keys and the
\* invalidation id with its own values whatever the record held, so that
\* the record ends with the values of the update written last.
C33_NoUploadLock ==
    [][\A p \in Slots :
          /\ \A id \in ReqIDs :
                 (/\ Approves(p, id, "rev", TRUE)
                  /\ GetUpload(uploads, id).found
                  /\ uploads[KeyOf(id)].status = StatusPending)
                     => /\ procs'[p].op = "approve" /\ procs'[p].id = id
                        /\ procs'[p].pc = "temp"
          /\ (/\ procs[p].op = "approve" /\ procs[p].pc = "update"
              /\ procs'[p].pc = "del")
                 => LET k == KeyOf(procs[p].id) IN
                    uploads' = [uploads EXCEPT ![k] =
                        [@ EXCEPT !.status = StatusApproved,
                                  !.reviewedBy = procs[p].who,
                                  !.s3Key = DestKey(procs[p].fileName),
                                  !.backupKey = procs[p].backupKey,
                                  !.invID = procs[p].invID,
                                  !.invStatus = "InProgress"]]]_vars

\* two Approves of the one pending upload both went through: two
\* invalidations were requested, the second Approve found the bytes the
\* first had written at the destination and backed them up before writing
\* them again, both wrote their success audit entry and answered 200, and
\* the record holds the invalidation id of the update written last, here
\* the first one requested
C33_Witness ==
    /\ cnt["approve"] = 2 /\ cnt["reject"] = 0
    /\ Len(invs) = 2
    /\ Len(audit) = 2
    /\ \A i \in 1..2 : audit[i].action = "approve"
                       /\ audit[i].status = "success"
    /\ last.op = "approve" /\ last.code = 200
    /\ \A p \in Slots : procs[p].op = "idle"
    /\ uploads[OidKey(1)].status = StatusApproved
    /\ uploads[OidKey(1)].invID = 1
    /\ \E k \in DOMAIN s3 : k.kind = "backup" /\ s3[k] = <<1>>
    /\ s3[DestKey("a.pdf")] = <<1>>

\* C34: once the context of an Approve is cancelled or past its deadline,
\* every later step of that Approve is skipped - it changes no store - and
\* the Approve ends with an error.
C34_CancelSkipsRest ==
    [][\A p \in Slots :
          (/\ procs[p].op = "approve" /\ procs[p].cancelled
           /\ procs'[p].pc # procs[p].pc)
              => /\ UNCHANGED stores
                 /\ procs'[p].op = "idle" => last'.code = 500]_vars

\* ------------------------------------------------------------------- C35
\* C35: whenever a record's invalidation status is Completed, the
\* invalidation named by the record's current invalidation id has been
\* reported Completed by CloudFront.
C35_CompletedIsReported ==
    \A k \in DOMAIN uploads :
        uploads[k].invStatus = "Completed"
            => /\ uploads[k].invID \in DOMAIN invs
               /\ invs[uploads[k].invID] = "Completed"

\* ------------------------------------------------------------------- C36
\* C36: every backup copy is written to a key that no earlier backup used,
\* and no step changes or removes the object stored under a backup key.
C36_BackupKeyFresh ==
    [][/\ \A p \in Slots :
             (/\ procs[p].op = "approve" /\ procs[p].pc = "backup"
              /\ procs'[p].pc = "put")
                 => procs'[p].backupKey \notin DOMAIN s3
       /\ \A k \in DOMAIN s3 :
             k.kind = "backup" => (k \in DOMAIN s3' /\ s3'[k] = s3[k])]_vars

\* ------------------------------------------------------- record expiry
\* The TTL index DB.createIndexes puts on expires_at with
\* expireAfterSeconds 0: MongoDB's TTL monitor removes a document of the
\* uploads collection once the time in its expires_at has passed.  now is
\* the time at which the monitor runs.
TTLMonitor(k, now) ==
    /\ k \in DOMAIN uploads
    /\ now >= clock /\ uploads[k].expiresAt <= now
    /\ clock' = now
    /\ uploads' = [j \in DOMAIN uploads \ {k} |-> uploads[j]]
    /\ notes' = {}
    /\ last' = NoResp
    /\ UNCHANGED <<cfg, quota, hist, temp, expiry, s3, backups, audit, invs,
                   purges, nextKey, procs, cnt>>

\* The review of the stored upload (Approve, Reject, GetStatus) over the
\* time at which its record expires, with a CloudFront distribution
\* configured and an object under its file name in the bucket.
TTLInit ==
    /\ cfg = [validation |-> TRUE, distribution |-> TRUE,
              cloudflare |-> FALSE, slack |-> FALSE]
    /\ quota = [upload |-> 0, approve |-> MaxApproves,
                reject |-> MaxRejects, status |-> MaxStatus,
                purge |-> 0, list |-> 0, auth |-> 0, temp |-> 0,
                cancel |-> 0]
    /\ expiry = << >>
    /\ uploads = (OidKey(1) :> SeedUpload("a.pdf", <<1>>, 1))
    /\ temp = (1 :> <<1>>)
    /\ s3 = (DestKey("a.pdf") :> PriorContent)
    /\ backups = {}
    /\ audit = << >>
    /\ notes = {}
    /\ invs = << >>
    /\ purges = << >>
    /\ clock = 0
    /\ nextKey = 2
    /\ procs = [p \in Slots |-> Idle]
    /\ cnt = [o \in Ops |-> 0]
    /\ last = NoResp
    /\ hist = << >>

TTLNext ==
    \/ \E p \in Slots, id \in ReqIDs, who \in Callers, getOk \in BOOLEAN :
         ApproveBegin(p, id, who, getOk)
    \/ \E p \in Slots : ApproveTemp(p)
    \/ \E p \in Slots : ApproveHead(p)
    \/ \E p \in Slots : ApproveBackup(p)
    \/ \E p \in Slots : ApprovePut(p)
    \/ \E p \in Slots : ApproveInvalidate(p)
    \/ \E p \in Slots, purgeOk, updateOk \in BOOLEAN :
         ApproveUpdate(p, purgeOk, updateOk)
    \/ \E p \in Slots : ApproveDelete(p)
    \/ \E p \in Slots : ApproveFinish(p)
    \/ \E p \in Slots, id \in ReqIDs, who \in Callers, decodeOk \in BOOLEAN,
          reason \in Reasons : RejectBegin(p, id, who, decodeOk, reason)
    \/ \E p \in Slots : RejectUpdate(p)
    \/ \E p \in Slots : RejectDelete(p)
    \/ \E p \in Slots : RejectFinish(p)
    \/ \E p \in Slots, id \in ReqIDs, getOk, pollOk \in BOOLEAN :
         GetUploadStatus(p, id, getOk, pollOk)
    \/ \E p \in Slots, updateOk \in BOOLEAN : StatusUpdate(p, updateOk)
    \/ \E i \in 1..MaxRetries : InvalidationCompletes(i)
    \/ \E k \in DOMAIN uploads, now \in 0..MaxClock : TTLMonitor(k, now)

TTLSpec == TTLInit /\ [][TTLNext]_vars

\* ------------------------------------------------------------------- C37
\* C37: no step removes an upload record, and a GetStatus that asks for the
\* stored upload and whose read succeeds is never answered with 404.
C37_RecordsKept ==
    [][/\ DOMAIN uploads \subseteq DOMAIN uploads'
       /\ \A p \in Slots, pollOk \in BOOLEAN :
             Polls(p, HexID(1), TRUE, pollOk) => last'.code # 404]_vars

\* ------------------------------------------------------------------- C38
\* C38: once no request is in flight, a stored upload whose status is
\* rejected does not have its bytes under the destination key, and one
\* whose status is approved carries no rejection reason.
C38_ApproveRejectExclusive ==
    (\A p \in Slots : procs[p].op = "idle") =>
        LET upload == uploads[OidKey(1)]
            dest == DestKey(upload.fileName)
        IN
        /\ upload.status = StatusRejected
              => ~(dest \in DOMAIN s3 /\ s3[dest] = <<1>>)
        /\ upload.status = StatusApproved => upload.reason = ""

\* ------------------------------------------------------------------- C39
\* C39: when the configured service auth token is the empty string,
\* AuthMiddleware calls the wrapped handler for no Authorization header.
C39_EmptyTokenServesNone ==
    (last.op = "auth" /\ cfg.ServiceAuthToken = << >>) => ~last.served

\* ------------------------------------------------------------------- C40
\* C40: every list request, whatever its page and page_size values, is
\* answered (with 200, or with 500 when the query fails), and in a 200 the
\* page size lies between 1 and the maximum (100 for uploads, 200 for
\* audit logs), the page is at least 1 and at most page_size items are
\* returned.
C40_PageSizeInRange ==
    Listed =>
        LET max == IF last.op = "list_uploads" THEN MaxUploadsPageSize
                   ELSE MaxAuditPageSize
        IN
        /\ last.code \in {200, 500}
        /\ last.code = 200 =>
               /\ last.pageSize >= 1 /\ last.pageSize <= max
               /\ last.page >= 1
               /\ Len(last.items) <= last.pageSize

====
